---- MODULE Spec2Model ----
(***************************************************************************)
(* ModernTTS: the multi-voice segmentation and audio-assembly pipeline.    *)
(*                                                                         *)
(* Text is a sequence of one-character strings, so that the regular        *)
(* expression of TextParser.parse, str.strip and str.split are computed    *)
(* character by character.  Voice identifiers are texts too (a tag's voice *)
(* is a slice of the input).  Audio buffers are sequences of byte values.  *)
(***************************************************************************)
EXTENDS Integers, Sequences, FiniteSets, TLC

VARIABLES
    parseArgs,      \* arguments of the TextParser.parse call under check
    parseResult,    \* [done, segments]: what the call returned
    keyArg,         \* argument of the Validator.validate_api_key call under check
    keyResult,      \* [done, is_valid]: what the call returned
    pydub_available,\* PYDUB_AVAILABLE: whether the import of pydub succeeded
    settings,       \* the QSettings values the pipeline reads
    tts_core,       \* ModernTTSApp.tts_core: [exists, api_key]
    workers,        \* current_worker ("main") and preview_worker ("preview")
    audio_data,     \* ModernTTSApp.audio_data (<< >> is None)
    ui_state,       \* the state last given to _update_ui_state
    dialog,         \* the message box the last handler showed ("none" if none)
    player,         \* AudioPlayer: [current_audio_data, source]
    requests,       \* how many workers the session has started so far
    saved_file,     \* the file _save_speech last wrote at the path the user chose
    temp_files,     \* [app, player]: the temp_files lists of the two TempFileManagers;
                    \* disk: the temporary files that exist
    window,         \* the main window: "open", "closing" (closeEvent waits), "closed"
    displaced,      \* the workers current_worker pointed to when it was replaced before
                    \* they had delivered their finished or error signal
    key_store,      \* where the credential is kept: QSettings, JSON backup, environment
    delimiter_call  \* [called, delimiter]: the last call of set_delimiter_string

harnessVars == <<parseArgs, parseResult, keyArg, keyResult>>
quietVars == <<window, displaced, key_store, delimiter_call>>
appVars == <<pydub_available, settings, tts_core, workers, audio_data, ui_state, dialog, player,
            requests, saved_file, temp_files, quietVars>>
vars == <<parseArgs, parseResult, keyArg, keyResult, pydub_available, settings, tts_core,
          workers, audio_data, ui_state, dialog, player, requests, saved_file, temp_files,
          window, displaced, key_store, delimiter_call>>

(***************************************************************************)
(* Bounds of the model.                                                    *)
(***************************************************************************)
MaxPieces == 3      \* a parser input is at most this many pieces long
MaxKeyBody == 31     \* a credential holds at most this many characters after its prefix
MaxRequests == 2     \* a session starts at most this many workers
MaxDelimiterInput == 11  \* set_delimiter_string is given at most this many characters
MaxTempFiles == 2    \* an export stages a temporary file while at most this many exist

(***************************************************************************)
(* Characters and character classes.                                       *)
(***************************************************************************)
Min(S) == CHOOSE x \in S : \A y \in S : x <= y
Max(S) == CHOOSE x \in S : \A y \in S : x >= y

\* \w of the re module, restricted to ASCII
WordChars ==
  { "A","B","C","D","E","F","G","H","I","J","K","L","M","N","O","P","Q","R","S","T",
    "U","V","W","X","Y","Z",
    "a","b","c","d","e","f","g","h","i","j","k","l","m","n","o","p","q","r","s","t",
    "u","v","w","x","y","z",
    "0","1","2","3","4","5","6","7","8","9","_" }

\* what str.strip() removes and \s matches
SpaceChars == { " ", "\n", "\r", "\t" }

IsWord(c) == c \in WordChars
IsSpace(c) == c \in SpaceChars

\* p occurs in s at index i (1-based)
OccursAt(s, p, i) ==
    /\ i >= 1
    /\ i + Len(p) - 1 <= Len(s)
    /\ SubSeq(s, i, i + Len(p) - 1) = p

\* str.find: the least index >= i where p occurs in s, 0 when there is none
RECURSIVE Find(_, _, _)
Find(s, p, i) ==
    IF i + Len(p) - 1 > Len(s) THEN 0
    ELSE IF OccursAt(s, p, i) THEN i
    ELSE Find(s, p, i + 1)

\* str.strip()
RECURSIVE LStrip(_)
LStrip(s) == IF s # <<>> /\ IsSpace(Head(s)) THEN LStrip(Tail(s)) ELSE s

RECURSIVE RStrip(_)
RStrip(s) ==
    IF s # <<>> /\ IsSpace(s[Len(s)]) THEN RStrip(SubSeq(s, 1, Len(s) - 1)) ELSE s

Strip(s) == RStrip(LStrip(s))

\* str.split(sep) for a non-empty sep: the parts between the occurrences of sep,
\* found left to right without overlap
RECURSIVE Split(_, _)
Split(s, sep) ==
    LET at == Find(s, sep, 1)
    IN  IF at = 0 THEN << s >>
        ELSE << SubSeq(s, 1, at - 1) >> \o Split(SubSeq(s, at + Len(sep), Len(s)), sep)

(***************************************************************************)
(* VoiceCatalog: AppConfig.VOICES and Validator.validate_voice.            *)
(***************************************************************************)
VOICES ==
  {
    <<"Z","e","p","h","y","r">>, <<"P","u","c","k">>, <<"C","h","a","r","o","n">>,
    <<"K","o","r","e">>, <<"F","e","n","r","i","r">>, <<"L","e","d","a">>, <<"O","r","u","s">>,
    <<"A","o","e","d","e">>, <<"C","a","l","l","i","r","r","h","o","e">>,
    <<"A","u","t","o","n","o","e">>, <<"E","n","c","e","l","a","d","u","s">>,
    <<"I","a","p","e","t","u","s">>, <<"U","m","b","r","i","e","l">>,
    <<"A","l","g","i","e","b","a">>, <<"D","e","s","p","i","n","a">>,
    <<"E","r","i","n","o","m","e">>, <<"A","l","g","e","n","i","b">>,
    <<"R","a","s","a","l","g","e","t","h","i">>, <<"L","a","o","m","e","d","e","i","a">>,
    <<"A","c","h","e","r","n","a","r">>, <<"A","l","n","i","l","a","m">>,
    <<"S","c","h","e","d","a","r">>, <<"G","a","c","r","u","x">>,
    <<"P","u","l","c","h","e","r","r","i","m","a">>, <<"A","c","h","i","r","d">>,
    <<"Z","u","b","e","n","e","l","g","e","n","u","b","i">>,
    <<"V","i","n","d","e","m","i","a","t","r","i","x">>,
    <<"S","a","d","a","c","h","b","i","a">>, <<"S","a","d","a","l","t","a","g","e","r">>,
    <<"S","u","l","a","f","a","t">>
  }

validate_voice(voice_name) == voice_name # <<>> /\ voice_name \in VOICES

(***************************************************************************)
(* Validator.validate_api_key and Validator.validate_text.                 *)
(***************************************************************************)
MIN_API_KEY_LENGTH == 30
MAX_TEXT_LENGTH == 5000

KeyPrefix == <<"A","I","z","a">>

\* str.startswith
startswith(s, p) == OccursAt(s, p, 1)

\* re.match(r'^[A-Za-z0-9_-]+$', s) for a string with no trailing newline
MatchesKeyPattern(s) ==
    /\ s # << >>
    /\ \A i \in 1..Len(s) : IsWord(s[i]) \/ s[i] = "-"

\* validate_api_key with the length floor itself rejected
validate_api_key_floorRejected(api_key) ==
    IF api_key = << >> THEN FALSE
    ELSE LET key == Strip(api_key)
         IN  IF Len(key) <= MIN_API_KEY_LENGTH THEN FALSE
             ELSE IF ~startswith(key, KeyPrefix) THEN FALSE
             ELSE IF ~MatchesKeyPattern(key) THEN FALSE
             ELSE TRUE

validate_api_key(api_key) ==
    IF api_key = << >> THEN FALSE
    ELSE LET key == Strip(api_key)
         IN  IF Len(key) < MIN_API_KEY_LENGTH THEN FALSE
             ELSE IF ~startswith(key, KeyPrefix) THEN FALSE
             ELSE IF ~MatchesKeyPattern(key) THEN FALSE
             ELSE TRUE

\* the characters validate_text lets through: / \w \s . , ! ? ; : - ( ) " ' [ ]
\* (and the guillemets, which no modelled text holds)
TextPunctuation == { "/", ".", ",", "!", "?", ";", ":", "-", "(", ")", "\"", "'", "[", "]" }

validate_text(text) ==
    IF text = << >> \/ Strip(text) = << >> THEN FALSE
    ELSE IF Len(Strip(text)) > MAX_TEXT_LENGTH THEN FALSE
    ELSE IF \E i \in 1..Len(text) :
               ~(IsWord(text[i]) \/ IsSpace(text[i]) \/ text[i] \in TextPunctuation)
         THEN FALSE
    ELSE TRUE

(***************************************************************************)
(* TextParser.                                                             *)
(***************************************************************************)
TagOpen == <<"[","v","o","i","c","e",":">>
TagClose == <<"[","/","v","o","i","c","e","]">>

has_voice_tags(text) == Find(text, TagOpen, 1) # 0

\* the first index >= i of s that holds no \w character (Len(s) + 1 when none)
RECURSIVE WordEnd(_, _)
WordEnd(s, i) == IF i <= Len(s) /\ IsWord(s[i]) THEN WordEnd(s, i + 1) ELSE i

NoMatch == [found |-> FALSE, start |-> 0, end |-> 0, voice |-> <<>>, inner |-> <<>>]

\* the pattern \[voice:(\w+)\](.*?)\[/voice\] (DOTALL) anchored at index i:
\* \w+ takes the whole run of word characters (the next character must be "]",
\* which is no word character) and the lazy .*? stops at the first closing marker.
\* start is the index of the match, end the index after it.
TagMatchAt(s, i) ==
    IF ~OccursAt(s, TagOpen, i) THEN NoMatch
    ELSE LET ns == i + Len(TagOpen)
             ne == WordEnd(s, ns)
         IN  IF ne = ns \/ ne > Len(s) \/ s[ne] # "]" THEN NoMatch
             ELSE LET c == Find(s, TagClose, ne + 1)
                  IN  IF c = 0 THEN NoMatch
                      ELSE [found |-> TRUE, start |-> i, end |-> c + Len(TagClose),
                            voice |-> SubSeq(s, ns, ne - 1),
                            inner |-> SubSeq(s, ne + 1, c - 1)]

\* the first match at or after index pos
RECURSIVE TagSearch(_, _)
TagSearch(s, pos) ==
    IF pos > Len(s) THEN NoMatch
    ELSE LET m == TagMatchAt(s, pos)
         IN  IF m.found THEN m ELSE TagSearch(s, pos + 1)

\* re.finditer: the matches left to right, each search starting where the last
\* match ended
RECURSIVE finditer(_, _)
finditer(s, pos) ==
    LET m == TagSearch(s, pos)
    IN  IF m.found THEN << m >> \o finditer(s, m.end) ELSE << >>

\* TagLoop with the voice named by a tag taken as it stands, in the catalog or not
RECURSIVE TagLoop_tagVoiceKept(_, _, _, _, _, _)
TagLoop_tagVoiceKept(text, default_voice, ms, k, last_end, segments) ==
    IF k > Len(ms)
    THEN IF last_end <= Len(text)
         THEN Append(segments, <<default_voice, Strip(SubSeq(text, last_end, Len(text)))>>)
         ELSE segments
    ELSE LET m == ms[k]
             before == IF m.start > last_end
                       THEN << <<default_voice, Strip(SubSeq(text, last_end, m.start - 1))>> >>
                       ELSE << >>
         IN  TagLoop_tagVoiceKept(text, default_voice, ms, k + 1, m.end,
                                  (segments \o before) \o << <<m.voice, Strip(m.inner)>> >>)

\* TagLoop with the text before a tag appended as it stands, not stripped
RECURSIVE TagLoop_rawBefore(_, _, _, _, _, _)
TagLoop_rawBefore(text, default_voice, ms, k, last_end, segments) ==
    IF k > Len(ms)
    THEN IF last_end <= Len(text)
         THEN Append(segments, <<default_voice, Strip(SubSeq(text, last_end, Len(text)))>>)
         ELSE segments
    ELSE LET m == ms[k]
             before == IF m.start > last_end
                       THEN << <<default_voice, SubSeq(text, last_end, m.start - 1)>> >>
                       ELSE << >>
             segment_text == Strip(m.inner)
             tagged == IF validate_voice(m.voice)
                       THEN <<m.voice, segment_text>>
                       ELSE <<default_voice, segment_text>>
         IN  TagLoop_rawBefore(text, default_voice, ms, k + 1, m.end,
                               (segments \o before) \o << tagged >>)

\* the body of the for loop over the matches, from match number k on
RECURSIVE TagLoop(_, _, _, _, _, _)
TagLoop(text, default_voice, ms, k, last_end, segments) ==
    IF k > Len(ms)
    THEN \* the remaining text
         IF last_end <= Len(text)
         THEN Append(segments, <<default_voice, Strip(SubSeq(text, last_end, Len(text)))>>)
         ELSE segments
    ELSE LET m == ms[k]
             before == IF m.start > last_end
                       THEN << <<default_voice, Strip(SubSeq(text, last_end, m.start - 1))>> >>
                       ELSE << >>
             segment_text == Strip(m.inner)
             tagged == IF validate_voice(m.voice)
                       THEN <<m.voice, segment_text>>
                       ELSE <<default_voice, segment_text>>
         IN  TagLoop(text, default_voice, ms, k + 1, m.end,
                     (segments \o before) \o << tagged >>)

ParseTagMode(text, default_voice) ==
    TagLoop(text, default_voice, finditer(text, 1), 1, 1, << >>)

\* DelimLoop with voice_index advanced for every part, kept or dropped
RECURSIVE DelimLoop_countsDropped(_, _, _, _, _)
DelimLoop_countsDropped(parts, k, voice_index, sequence, segments) ==
    IF k > Len(parts) THEN segments
    ELSE LET stripped_part == Strip(parts[k])
         IN  IF stripped_part # <<>>
             THEN DelimLoop_countsDropped(parts, k + 1, voice_index + 1, sequence,
                            Append(segments,
                                   <<sequence[(voice_index % Len(sequence)) + 1],
                                     stripped_part>>))
             ELSE DelimLoop_countsDropped(parts, k + 1, voice_index + 1, sequence, segments)

\* the for loop over the parts; voice_index counts the parts kept so far
RECURSIVE DelimLoop(_, _, _, _, _)
DelimLoop(parts, k, voice_index, sequence, segments) ==
    IF k > Len(parts) THEN segments
    ELSE LET stripped_part == Strip(parts[k])
         IN  IF stripped_part # <<>>
             THEN DelimLoop(parts, k + 1, voice_index + 1, sequence,
                            Append(segments,
                                   <<sequence[(voice_index % Len(sequence)) + 1],
                                     stripped_part>>))
             ELSE DelimLoop(parts, k + 1, voice_index, sequence, segments)

ParseDelimiterMode(text, default_voice, delimiter_string, delimiter_voice_sequence) ==
    LET sequence == IF delimiter_voice_sequence = <<>>
                    THEN << default_voice >> ELSE delimiter_voice_sequence
    IN  DelimLoop(Split(text, delimiter_string), 1, 0, sequence, << >>)

\* ParsePlain without the strip
ParsePlain_noStrip(text, default_voice) == << <<default_voice, text>> >>

ParsePlain(text, default_voice) == << <<default_voice, Strip(text)>> >>

NonEmptyText(seg) == seg[2] # <<>>

\* parse without the final filter of the empty segments
parse_unfiltered(text, default_voice, delimiter_enabled, delimiter_string, delimiter_voice_sequence) ==
    IF has_voice_tags(text) THEN ParseTagMode(text, default_voice)
    ELSE IF delimiter_enabled /\ delimiter_string # <<>>
         THEN ParseDelimiterMode(text, default_voice, delimiter_string,
                                 delimiter_voice_sequence)
         ELSE ParsePlain(text, default_voice)

\* parse with the delimiter branch tried before the tag branch
parse_delimiterFirst(text, default_voice, delimiter_enabled, delimiter_string, delimiter_voice_sequence) ==
    LET segments ==
            IF delimiter_enabled /\ delimiter_string # <<>>
            THEN ParseDelimiterMode(text, default_voice, delimiter_string,
                                    delimiter_voice_sequence)
            ELSE IF has_voice_tags(text) THEN ParseTagMode(text, default_voice)
                 ELSE ParsePlain(text, default_voice)
    IN  SelectSeq(segments, NonEmptyText)

parse(text, default_voice, delimiter_enabled, delimiter_string, delimiter_voice_sequence) ==
    LET segments ==
            IF has_voice_tags(text) THEN ParseTagMode(text, default_voice)
            ELSE IF delimiter_enabled /\ delimiter_string # <<>>
                 THEN ParseDelimiterMode(text, default_voice, delimiter_string,
                                         delimiter_voice_sequence)
                 ELSE ParsePlain(text, default_voice)
    IN  SelectSeq(segments, NonEmptyText)

(***************************************************************************)
(* Audio: PCM buffers, the WAV container and the pydub AudioSegment.       *)
(***************************************************************************)
AUDIO_SAMPLE_RATE == 24000
AUDIO_CHANNELS == 1
AUDIO_SAMPLE_WIDTH == 2

LE16(n) == << n % 256, (n \div 256) % 256 >>
LE32(n) == << n % 256, (n \div 256) % 256, (n \div 65536) % 256, (n \div 16777216) % 256 >>

\* the ASCII codes of "RIFF", "WAVE", "fmt " and "data"
RiffTag == <<82, 73, 70, 70>>
WaveTag == <<87, 65, 86, 69>>
FmtTag == <<102, 109, 116, 32>>
DataTag == <<100, 97, 116, 97>>

\* the file the wave module writes: the 44-byte header, then the frames
WavFile(pcm_data, channels, rate, sample_width) ==
    RiffTag \o LE32(36 + Len(pcm_data)) \o WaveTag \o FmtTag \o LE32(16) \o LE16(1)
      \o LE16(channels) \o LE32(rate) \o LE32(channels * rate * sample_width)
      \o LE16(channels * sample_width) \o LE16(sample_width * 8)
      \o DataTag \o LE32(Len(pcm_data)) \o pcm_data

\* AudioFileManager.save_wav_file: the content of the file written
save_wav_file(pcm_data) ==
    WavFile(pcm_data, AUDIO_CHANNELS, AUDIO_SAMPLE_RATE, AUDIO_SAMPLE_WIDTH)

\* AudioSegment.empty()
AudioSegmentEmpty == [data |-> << >>, sample_width |-> 1, frame_rate |-> 1, channels |-> 1]

\* AudioSegment.from_raw(BytesIO(audio_data), sample_width, frame_rate, channels)
from_raw(raw_data) ==
    [data |-> raw_data, sample_width |-> AUDIO_SAMPLE_WIDTH,
     frame_rate |-> AUDIO_SAMPLE_RATE, channels |-> AUDIO_CHANNELS]

Larger(a, b) == IF a >= b THEN a ELSE b

\* combined_audio += segment_audio: both are brought to the larger format (which
\* leaves the data as it is when a segment has that format or holds no data),
\* then the data are appended
AudioAppend(combined_audio, segment_audio) ==
    [data |-> combined_audio.data \o segment_audio.data,
     sample_width |-> Larger(combined_audio.sample_width, segment_audio.sample_width),
     frame_rate |-> Larger(combined_audio.frame_rate, segment_audio.frame_rate),
     channels |-> Larger(combined_audio.channels, segment_audio.channels)]

\* combined_audio.export(final_audio_io, format="wav"); final_audio_io.getvalue()
export_wav(combined_audio) ==
    WavFile(combined_audio.data, combined_audio.channels, combined_audio.frame_rate,
            combined_audio.sample_width)

(***************************************************************************)
(* The generation workers.  A worker runs from one blocking remote call to *)
(* the next; calls and emitted are its history.                            *)
(***************************************************************************)
\* how a remote call ends: with an audio payload, with no candidate, with a
\* part that holds no inline data, with an inline data of no bytes, or raising
Outcomes == { "ok", "empty_response", "no_inline_data", "empty_data", "remote_error" }

\* the payload of the n-th call a worker makes
ResponseAudio(n) == << 2 * n - 1, 2 * n >>

Finished(data) == [sig |-> "finished", data |-> data, reason |-> "", segment |-> 0]
\* segment is the 1-based segment number the message names, 0 when it names none
Error(reason, segment) == [sig |-> "error", data |-> << >>, reason |-> reason, segment |-> segment]

NoWorker ==
    [kind |-> "none", api_key |-> << >>, source |-> << >>, text |-> << >>, voice |-> << >>,
     segments |-> << >>, use_native_multispeaker |-> FALSE, pc |-> "idle", i |-> 0,
     combined_audio |-> AudioSegmentEmpty, native_failed |-> FALSE,
     calls |-> << >>, progress |-> << >>, emitted |-> << >>]

TTSWorker(api_key, text, voice) ==
    [NoWorker EXCEPT !.kind = "tts", !.api_key = api_key, !.source = text, !.text = text,
                     !.voice = voice, !.pc = "start"]

MultiVoiceTTSWorker(api_key, segments, use_native_multispeaker) ==
    [NoWorker EXCEPT !.kind = "multi", !.api_key = api_key, !.segments = segments,
                     !.use_native_multispeaker = use_native_multispeaker, !.pc = "start"]

\* a text of the progress signal; i and total are the numbers a segment text names
Progress(text, i, total) == [text |-> text, i |-> i, total |-> total]
Report(w, p) == [w EXCEPT !.progress = Append(@, p)]

Emit(w, signal) == [w EXCEPT !.emitted = Append(@, signal), !.pc = "done"]

RemoteCall(kind, voice, speakers, contents) ==
    [kind |-> kind, voice |-> voice, speakers |-> speakers, contents |-> contents,
     outcome |-> "pending"]

IssueCall(w, call, pc) == [w EXCEPT !.calls = Append(@, call), !.pc = pc]
Answered(w, outcome) == [w EXCEPT !.calls[Len(w.calls)].outcome = outcome]

\* TTSWorker.run up to its remote call
TTSWorker_run(w) ==
    IF ~validate_api_key(w.api_key) THEN Emit(w, Error("api_key", 0))
    ELSE IF ~validate_text(w.text) THEN Emit(w, Error("text", 0))
    ELSE IF ~validate_voice(w.voice) THEN Emit(w, Error("voice", 0))
    ELSE IssueCall(Report(Report(w, Progress("init_client", 0, 0)), Progress("sending", 0, 0)),
                   RemoteCall("single", w.voice, {}, w.text), "single_call")

\* TTSWorker.run from the return of its remote call
TTSWorker_response(w, outcome, audio) ==
    LET a == IF outcome = "remote_error" THEN Answered(w, outcome)
             ELSE Report(Answered(w, outcome), Progress("processing", 0, 0))
    IN  CASE outcome = "remote_error" -> Emit(a, Error("exception", 0))
          [] outcome = "empty_response" -> Emit(a, Error("empty_response", 0))
          [] outcome = "no_inline_data" -> Emit(a, Error("exception", 0))
          [] outcome = "empty_data" -> Emit(a, Error("no_audio_data", 0))
          [] outcome = "ok" -> Emit(a, Finished(audio))

SegmentVoices(segments) == { segments[k][1] : k \in 1..Len(segments) }

\* _can_use_native_multispeaker with the upper limit left out
can_use_native_multispeaker_noCeiling(w) ==
    Cardinality(SegmentVoices(w.segments)) > 1

can_use_native_multispeaker(w) ==
    /\ Cardinality(SegmentVoices(w.segments)) > 1
    /\ Cardinality(SegmentVoices(w.segments)) <= 2

\* "TTS the following conversation:\n"
PromptHeader ==
    <<"T","T","S"," ","t","h","e"," ","f","o","l","l","o","w","i","n","g"," ",
      "c","o","n","v","e","r","s","a","t","i","o","n",":","\n">>

\* "\n".join(f"{voice}: {text}" for voice, text in segments)
RECURSIVE PromptLines(_)
PromptLines(segments) ==
    IF segments = << >> THEN << >>
    ELSE LET line == (segments[1][1] \o <<":", " ">>) \o segments[1][2]
         IN  IF Len(segments) = 1 THEN line
             ELSE (line \o <<"\n">>) \o PromptLines(Tail(segments))

\* full_prompt with the texts of the segments only, the voices left out
RECURSIVE full_prompt_textsOnly(_)
full_prompt_textsOnly(segments) ==
    IF segments = << >> THEN PromptHeader
    ELSE full_prompt_textsOnly(SubSeq(segments, 1, Len(segments) - 1))
           \o segments[Len(segments)][2]

full_prompt(segments) == PromptHeader \o PromptLines(segments)

SegmentCall(w, i) == RemoteCall("segment", w.segments[i][1], {}, w.segments[i][2])

\* _generate_sequential up to its first remote call
generate_sequential(w, pydub) ==
    IF ~pydub THEN Emit(w, Error("pydub_missing", 0))
    ELSE LET s == [w EXCEPT !.combined_audio = AudioSegmentEmpty, !.i = 1]
         IN  IF Len(w.segments) = 0
             THEN Emit(s, Finished(export_wav(s.combined_audio)))
             ELSE IssueCall(Report(s, Progress("segment", 1, Len(w.segments))),
                            SegmentCall(s, 1), "segment_call")

\* _generate_sequential from the return of the remote call of segment w.i
\* (BytesIO(None) and BytesIO(b"") both hold no bytes)
generate_sequential_response(w, outcome, audio) ==
    LET a == Answered(w, outcome)
    IN  CASE outcome = "remote_error" -> Emit(a, Error("exception", 0))
          [] outcome = "no_inline_data" -> Emit(a, Error("exception", 0))
          [] outcome = "empty_response" -> Emit(a, Error("empty_response_for_segment", w.i))
          [] outcome \in { "ok", "empty_data" } ->
                LET segment_audio == from_raw(IF outcome = "ok" THEN audio ELSE << >>)
                    c == [a EXCEPT !.combined_audio = AudioAppend(@, segment_audio)]
                IN  IF w.i < Len(w.segments)
                    THEN IssueCall(Report([c EXCEPT !.i = w.i + 1],
                                          Progress("segment", w.i + 1, Len(w.segments))),
                                   SegmentCall(w, w.i + 1), "segment_call")
                    ELSE Emit(c, Finished(export_wav(c.combined_audio)))

\* _generate_native_multispeaker up to its remote call
generate_native_multispeaker(w) ==
    IssueCall(Report(w, Progress("multispeaker", 0, 0)),
              RemoteCall("native", << >>, SegmentVoices(w.segments),
                         full_prompt(w.segments)), "native_call")

\* the except branch of _generate_native_multispeaker with the error reported
native_failure_reported(w, pydub) == Emit(w, Error("exception", 0))

\* the except branch of _generate_native_multispeaker
native_failure(w, pydub) == generate_sequential([w EXCEPT !.native_failed = TRUE], pydub)

\* _generate_native_multispeaker reporting an empty response as an error of its own
generate_native_multispeaker_response_surfacesEmpty(w, outcome, audio, pydub) ==
    LET a == Answered(w, outcome)
    IN  IF outcome = "ok" THEN Emit(a, Finished(audio))
        ELSE IF outcome = "empty_response" THEN Emit(a, Error("empty_response", 0))
        ELSE native_failure(a, pydub)

\* _generate_native_multispeaker going on to its except branch after it emitted
\* the finished signal
generate_native_multispeaker_response_emitsThenFallsBack(w, outcome, audio, pydub) ==
    LET a == Answered(w, outcome)
    IN  IF outcome = "ok"
        THEN native_failure([a EXCEPT !.emitted = Append(@, Finished(audio))], pydub)
        ELSE native_failure(a, pydub)

\* _generate_native_multispeaker from the return of its remote call
generate_native_multispeaker_response(w, outcome, audio, pydub) ==
    LET a == Answered(w, outcome)
    IN  IF outcome = "ok" THEN Emit(a, Finished(audio))
        ELSE native_failure(a, pydub)

\* MultiVoiceTTSWorker.run up to its first remote call
MultiVoiceTTSWorker_run(w, pydub) ==
    IF w.use_native_multispeaker /\ can_use_native_multispeaker(w)
    THEN generate_native_multispeaker(w)
    ELSE generate_sequential(w, pydub)

(***************************************************************************)
(* SettingsManager and TextToSpeechCore.                                   *)
(***************************************************************************)
DEFAULT_VOICE == <<"K","o","r","e">>

NonEmptySeq(s) == s # << >>
ValidVoiceName(v) == validate_voice(v)

StripAll(parts) == [k \in 1..Len(parts) |-> Strip(parts[k])]

\* SettingsManager.get_delimiter_voice_sequence: the stored value is the names
\* joined by commas ("" when the key was never set)
get_delimiter_voice_sequence(stored) ==
    IF stored # << >>
    THEN LET voices == SelectSeq(StripAll(Split(stored, <<",">>)), NonEmptySeq)
             valid_voices == SelectSeq(voices, ValidVoiceName)
         IN  IF valid_voices # << >> THEN valid_voices ELSE << DEFAULT_VOICE >>
    ELSE << DEFAULT_VOICE >>

DEFAULT_VOICE_DELIMITER == <<"-","-","-">>
MAX_DELIMITER_LENGTH == 10

\* SettingsManager.get_delimiter_string; Unset is the key not being in QSettings
get_delimiter_string(stored) ==
    IF stored.delimiter_string = << >> THEN DEFAULT_VOICE_DELIMITER
    ELSE stored.delimiter_string

\* set_delimiter_string that stores whatever it is given
set_delimiter_string_noCheck(stored, delimiter) ==
    [stored EXCEPT !.delimiter_string = delimiter]

\* SettingsManager.set_delimiter_string: the settings it leaves
set_delimiter_string(stored, delimiter) ==
    IF delimiter # << >> /\ Len(delimiter) <= MAX_DELIMITER_LENGTH
    THEN [stored EXCEPT !.delimiter_string = delimiter]
    ELSE stored

RECURSIVE JoinVoices(_)
JoinVoices(voices) ==
    IF voices = << >> THEN << >>
    ELSE IF Len(voices) = 1 THEN voices[1]
    ELSE (voices[1] \o <<",">>) \o JoinVoices(Tail(voices))

\* SettingsManager.set_delimiter_voice_sequence: the value stored
set_delimiter_voice_sequence(voices) ==
    LET valid_voices == SelectSeq(voices, ValidVoiceName)
    IN  IF valid_voices # << >> THEN JoinVoices(valid_voices) ELSE DEFAULT_VOICE

\* TextToSpeechCore.__init__: the core, or none when the key does not validate
TextToSpeechCore(api_key) ==
    IF validate_api_key(api_key) THEN [exists |-> TRUE, api_key |-> api_key]
    ELSE [exists |-> FALSE, api_key |-> << >>]

\* validate_request that finds every request valid
validate_request_acceptsAll(text, voice) == TRUE

\* TextToSpeechCore.validate_request
validate_request(text, voice) ==
    IF ~validate_text(text) THEN FALSE
    ELSE IF ~validate_voice(voice) THEN FALSE
    ELSE TRUE

\* TextToSpeechCore.create_worker
create_worker(core, stored, text, voice) ==
    LET delimiter_enabled == stored.delimiter_enabled
        delimiter_string == get_delimiter_string(stored)
        delimiter_voice_sequence == get_delimiter_voice_sequence(stored.delimiter_voice_sequence)
    IN  IF delimiter_enabled \/ has_voice_tags(text)
        THEN [MultiVoiceTTSWorker(core.api_key,
                                  parse(text, voice, delimiter_enabled, delimiter_string,
                                        delimiter_voice_sequence),
                                  stored.use_native_multispeaker)
                EXCEPT !.source = text]
        ELSE TTSWorker(core.api_key, text, voice)

\* the sample text of _preview_voice (its Cyrillic letters, \w characters like
\* the Latin ones, are written in Latin letters)
PreviewHead ==
    <<"P","r","i","v","e","t","!"," ","M","e","n","y","a"," ","z","o","v","u","t"," ">>
PreviewTail ==
    <<"."," ","E","t","o"," ","o","b","r","a","z","e","t","s"," ","m","o","e","g","o"," ",
      "g","o","l","o","s","a",".">>
preview_text(voice) == (PreviewHead \o voice) \o PreviewTail

(***************************************************************************)
(* Inputs of the parser check: every concatenation of at most MaxPieces    *)
(* pieces, and the inputs the specification names.                         *)
(***************************************************************************)
Kore == <<"K","o","r","e">>
Puck == <<"P","u","c","k">>
Charon == <<"C","h","a","r","o","n">>
Nova == <<"N","o","v","a">>          \* not in the catalog
VoiceX == <<"X">>                    \* not in the catalog
VoiceY == <<"Y">>                    \* not in the catalog
Dashes == <<"-","-","-">>

OpenTag(v) == (TagOpen \o v) \o <<"]">>

Pieces ==
  { OpenTag(Kore), OpenTag(Puck), OpenTag(<<"Z","e","d">>), TagClose, TagOpen,
    <<"H","i">>, <<" ">>, Dashes }

RECURSIVE Texts(_)
Texts(n) ==
    IF n = 0 THEN { << >> }
    ELSE LET shorter == Texts(n - 1)
         IN  shorter \cup { t \o p : t \in shorter, p \in Pieces }

\* "[voice:Kore]Hi[/voice] [voice:Puck]Bye[/voice]"
ExampleTags ==
    OpenTag(Kore) \o <<"H","i">> \o TagClose \o <<" ">>
      \o OpenTag(Puck) \o <<"B","y","e">> \o TagClose
\* "A---B---C"
ExampleDelimiter == <<"A">> \o Dashes \o <<"B">> \o Dashes \o <<"C">>
\* " Hi [voice:Kore] a\nb [/voice]--- [voice:Puck]c[/voice] Yo "
ExampleMixed ==
    <<" ","H","i"," ">> \o OpenTag(Kore) \o <<" ","a","\n","b"," ">> \o TagClose
      \o Dashes \o <<" ">> \o OpenTag(Puck) \o <<"c">> \o TagClose \o <<" ","Y","o"," ">>
\* "---A--- ---B----C---"
ExampleGaps ==
    Dashes \o <<"A">> \o Dashes \o <<" ">> \o Dashes \o <<"B">> \o Dashes
      \o <<"-","C">> \o Dashes

ParserTexts == Texts(MaxPieces) \cup { ExampleTags, ExampleDelimiter, ExampleMixed, ExampleGaps }

\* (delimiter_enabled, delimiter_string, delimiter_voice_sequence)
ParserConfigs ==
  { <<FALSE, Dashes, <<VoiceX, VoiceY>> >>,
    <<TRUE, Dashes, <<VoiceX, VoiceY>> >>,
    <<TRUE, Dashes, << >> >>,
    <<TRUE, <<"-">>, <<VoiceX, VoiceY, Kore>> >>,
    <<TRUE, << >>, <<VoiceX>> >> }

ParserDefaults == { Nova, Kore }

NoParseArgs ==
    [text |-> << >>, default_voice |-> << >>, delimiter_enabled |-> FALSE,
     delimiter_string |-> << >>, delimiter_voice_sequence |-> << >>]

NoKeyResult == [done |-> FALSE, is_valid |-> FALSE]
NoParseResult == [done |-> FALSE, segments |-> << >>]


(***************************************************************************)
(* Inputs of the credential check: optional surrounding whitespace, a      *)
(* prefix, and a body of one repeated character with at most one other     *)
(* character put in at its start, middle or end.                           *)
(***************************************************************************)
RECURSIVE Repeat(_, _)
Repeat(c, n) == IF n = 0 THEN << >> ELSE << c >> \o Repeat(c, n - 1)

KeyPrefixes == { KeyPrefix, <<"A","I","z","b">>, <<"a","I","z","a">>, <<"A","I","z">>, << >> }
KeyMargins == { << >>, <<" ">>, <<"\n">> }
KeyOddChars == { "-", "_", "7", "@", " ", "." }

KeyBodies ==
    { Repeat("x", n) : n \in 0..MaxKeyBody }
    \cup UNION { { (Repeat("x", at) \o << c >>) \o Repeat("x", n - at) :
                      at \in { 0, 3, n }, c \in KeyOddChars } :
                    n \in { 5, 25, 26, 27, MaxKeyBody - 1 } }

ApiKeys == { (l \o p) \o (b \o r) : l \in KeyMargins, p \in KeyPrefixes, b \in KeyBodies,
                                    r \in KeyMargins }


(***************************************************************************)
(* The application: ModernTTSApp with its workers.                         *)
(***************************************************************************)
Slots == { "main", "preview" }

\* no file written yet
NoFile == [format |-> "none", content |-> << >>]

NoPlayer == [current_audio_data |-> << >>, source |-> << >>]

\* the stored settings: (delimiter_enabled, delimiter_string, the argument of the
\* last set_delimiter_voice_sequence or Unset, use_native_multispeaker)
Unset == << >>
SettingsChoices ==
  { <<FALSE, Dashes, Unset, FALSE>>,
    <<FALSE, Dashes, Unset, TRUE>>,
    <<TRUE, Dashes, <<Kore, Puck>>, TRUE>>,
    <<TRUE, Dashes, <<Kore, Puck>>, FALSE>>,
    <<TRUE, Dashes, <<Kore, Puck, Charon>>, TRUE>>,
    <<TRUE, Dashes, <<Nova, Puck>>, TRUE>> }

StoredSettings(c) ==
    [delimiter_enabled |-> c[1], delimiter_string |-> c[2],
     delimiter_voice_sequence |->
        IF c[3] = Unset THEN << >> ELSE set_delimiter_voice_sequence(c[3]),
     use_native_multispeaker |-> c[4]]

\* "AIza" and 31 more characters; a key that is too short
GoodKey == KeyPrefix \o Repeat("x", 31)
ShortKey == KeyPrefix \o Repeat("x", 6)

\* the voices of voice_combo the user picks among
ComboVoices == { Kore, Puck }

\* "[voice:Kore]a[/voice][voice:Puck]b[/voice][voice:Charon]c[/voice]"
ExampleThreeVoices ==
    OpenTag(Kore) \o <<"a">> \o TagClose \o OpenTag(Puck) \o <<"b">> \o TagClose
      \o OpenTag(Charon) \o <<"c">> \o TagClose

\* the texts of text_input the user generates from
AppTexts ==
  { <<"H","i">>, << >>, <<" ","H","i","@"," ">>, ExampleTags, ExampleThreeVoices,
    ExampleDelimiter, OpenTag(Kore) \o TagClose, OpenTag(Kore) \o <<"H","i">> \o TagClose }

NoDelimiterCall == [called |-> FALSE, delimiter |-> << >>]

\* TempFileManager: no temporary file created yet
NoTempFiles == [app |-> << >>, player |-> << >>, disk |-> {}]

Tracked(temp_list) == { temp_list[k] : k \in DOMAIN temp_list }

\* tempfile.NamedTemporaryFile(delete=False): a new file, of a name that no
\* existing file has (names are numbers, the smallest free one is taken)
NamedTemporaryFile(disk) == Min({ p \in 1..(Cardinality(disk) + 1) : p \notin disk })

\* TempFileManager.create_temp_file of the manager m ("app" is
\* ModernTTSApp.temp_manager, "player" is AudioPlayer.temp_manager)
create_temp_file(files, m) ==
    LET temp_path == NamedTemporaryFile(files.disk)
    IN  [files EXCEPT ![m] = Append(@, temp_path), !.disk = @ \cup { temp_path }]

\* TempFileManager.cleanup of the manager m that forgets no file it could not
\* remove
cleanup_keepsUnremoved(files, m, removable) ==
    [files EXCEPT ![m] = SelectSeq(@, LAMBDA q : q \notin removable),
                  !.disk = @ \ (Tracked(files[m]) \cap removable)]

\* TempFileManager.cleanup of the manager m; removable holds the paths whose
\* os.remove succeeds, a failed removal is logged and the list is cleared anyway
cleanup(files, m, removable) ==
    [files EXCEPT ![m] = << >>, !.disk = @ \ (Tracked(files[m]) \cap removable)]

(***************************************************************************)
(* The credential store of SettingsManager.                                *)
(***************************************************************************)
FernetPrefix == <<"g","A","A","A","A","A">>

RECURSIVE Reverse(_)
Reverse(s) == IF s = << >> THEN << >> ELSE Reverse(Tail(s)) \o << Head(s) >>

\* SecureKeyManager.encrypt_api_key: a Fernet token (a marker and the key's
\* characters in another order), or the key itself when the cryptography
\* library is missing
encrypt_api_key(api_key, crypto) ==
    IF crypto THEN FernetPrefix \o Reverse(api_key) ELSE api_key

\* SecureKeyManager.decrypt_api_key: what is no token of this key manager comes
\* back as it is
decrypt_api_key(encrypted_key, crypto) ==
    IF crypto /\ startswith(encrypted_key, FernetPrefix)
    THEN Reverse(SubSeq(encrypted_key, Len(FernetPrefix) + 1, Len(encrypted_key)))
    ELSE encrypted_key

\* the store with nothing saved; env is GEMINI_API_KEY (<< >> when not set),
\* crypto is CRYPTO_AVAILABLE; last records which of remove_api_key and a
\* successful save_api_key came last ("none" before either)
EmptyKeyStore(env, crypto) ==
    [api_key_manually_removed |-> FALSE, api_key_encrypted |-> << >>,
     json_api_key_encrypted |-> << >>, env |-> env, crypto |-> crypto, last |-> "none"]

\* SettingsManager.load_api_key that looks at the environment before the flag
load_api_key_envFirst(store) ==
    IF store.env # << >> /\ validate_api_key(store.env) THEN store.env
    ELSE << >>

\* SettingsManager.load_api_key: the key returned, << >> for None
load_api_key(store) ==
    IF store.api_key_manually_removed THEN << >>
    ELSE IF store.env # << >> /\ validate_api_key(store.env) THEN store.env
    ELSE IF store.api_key_encrypted # << >>
            /\ validate_api_key(decrypt_api_key(store.api_key_encrypted, store.crypto))
         THEN decrypt_api_key(store.api_key_encrypted, store.crypto)
    ELSE IF store.json_api_key_encrypted # << >>
            /\ validate_api_key(store.json_api_key_encrypted)
         THEN store.json_api_key_encrypted
    ELSE << >>

\* SettingsManager.load_api_key: the store it leaves (a stored key that does
\* not validate is removed from QSettings)
load_api_key_store(store) ==
    IF /\ ~store.api_key_manually_removed
       /\ ~(store.env # << >> /\ validate_api_key(store.env))
       /\ store.api_key_encrypted # << >>
       /\ ~validate_api_key(decrypt_api_key(store.api_key_encrypted, store.crypto))
    THEN [store EXCEPT !.api_key_encrypted = << >>]
    ELSE store

\* SettingsManager.save_api_key: whether it returns True
save_api_key_result(store, api_key) ==
    validate_api_key(api_key) /\ encrypt_api_key(api_key, store.crypto) # << >>

\* SettingsManager.save_api_key: the store it leaves; json_written says whether
\* the JSON backup could be written (a failure is logged only)
save_api_key(store, api_key, json_written) ==
    IF ~validate_api_key(api_key) THEN store
    ELSE [store EXCEPT
             !.api_key_encrypted = encrypt_api_key(api_key, store.crypto),
             !.api_key_manually_removed = FALSE,
             !.json_api_key_encrypted =
                 IF json_written THEN encrypt_api_key(api_key, store.crypto) ELSE @,
             !.last = "saved"]

\* SettingsManager.remove_api_key that sets no flag
remove_api_key_noFlag(store, json_written) ==
    [store EXCEPT !.api_key_encrypted = << >>,
                  !.json_api_key_encrypted = IF json_written THEN << >> ELSE @,
                  !.last = "removed"]

\* SettingsManager.remove_api_key
remove_api_key(store, json_written) ==
    [store EXCEPT !.api_key_encrypted = << >>,
                  !.api_key_manually_removed = TRUE,
                  !.json_api_key_encrypted = IF json_written THEN << >> ELSE @,
                  !.last = "removed"]

\* the store of a session that runs with the core it has: the key of the core
\* saved earlier, nothing saved when there is no core
KeyStoreOf(core) ==
    IF core.exists THEN save_api_key(EmptyKeyStore(<< >>, TRUE), core.api_key, TRUE)
    ELSE EmptyKeyStore(<< >>, TRUE)

HarnessIdle ==
    /\ parseArgs = NoParseArgs
    /\ parseResult = NoParseResult
    /\ keyArg = << >>
    /\ keyResult = NoKeyResult

AppIdle ==
    /\ pydub_available = TRUE
    /\ settings = StoredSettings(<<FALSE, Dashes, Unset, FALSE>>)
    /\ tts_core = TextToSpeechCore(GoodKey)
    /\ workers = [s \in Slots |-> NoWorker]
    /\ audio_data = << >>
    /\ ui_state = "idle"
    /\ dialog = "none"
    /\ player = NoPlayer
    /\ requests = 0
    /\ saved_file = NoFile
    /\ temp_files = NoTempFiles
    /\ window = "open"
    /\ displaced = << >>
    /\ key_store = KeyStoreOf(tts_core)
    /\ delimiter_call = NoDelimiterCall

\* the parser check
InitParse ==
    /\ \E t \in ParserTexts, c \in ParserConfigs, d \in ParserDefaults :
          parseArgs = [text |-> t, default_voice |-> d, delimiter_enabled |-> c[1],
                       delimiter_string |-> c[2], delimiter_voice_sequence |-> c[3]]
    /\ parseResult = NoParseResult
    /\ keyArg = << >>
    /\ keyResult = NoKeyResult
    /\ AppIdle

CallParse ==
    /\ ~parseResult.done
    /\ parseResult' =
          [done |-> TRUE,
           segments |-> parse(parseArgs.text, parseArgs.default_voice,
                              parseArgs.delimiter_enabled, parseArgs.delimiter_string,
                              parseArgs.delimiter_voice_sequence)]
    /\ UNCHANGED <<parseArgs, keyArg, keyResult, appVars>>

NextParse == CallParse

SpecParse == InitParse /\ [][NextParse]_vars

\* the credential check
InitKey ==
    /\ parseArgs = NoParseArgs
    /\ parseResult = NoParseResult
    /\ keyArg \in ApiKeys
    /\ keyResult = NoKeyResult
    /\ AppIdle

CallValidateApiKey ==
    /\ ~keyResult.done
    /\ keyResult' = [done |-> TRUE, is_valid |-> validate_api_key(keyArg)]
    /\ UNCHANGED <<parseArgs, parseResult, keyArg, appVars>>

NextKey == CallValidateApiKey

SpecKey == InitKey /\ [][NextKey]_vars

\* the application
Init ==
    /\ HarnessIdle
    /\ pydub_available \in BOOLEAN
    /\ settings \in { StoredSettings(c) : c \in SettingsChoices }
    /\ tts_core \in { TextToSpeechCore(k) : k \in { GoodKey, ShortKey } }
    /\ workers = [s \in Slots |-> NoWorker]
    /\ audio_data = << >>
    /\ ui_state = "idle"
    /\ dialog = "none"
    /\ player = NoPlayer
    /\ requests = 0
    /\ saved_file = NoFile
    /\ temp_files = NoTempFiles
    /\ window = "open"
    /\ displaced = << >>
    /\ key_store = KeyStoreOf(tts_core)
    /\ delimiter_call = NoDelimiterCall

\* QThread.isRunning: started, and run() has not returned
isRunning(w) == w.kind # "none" /\ w.pc # "done"

\* _generate_speech with the text t in text_input and the voice v selected in
\* voice_combo.  A worker that has emitted its signal has it handled before the
\* next generation starts.  When current_worker still points to a running
\* worker, the assignment drops the last reference to a running QThread: the
\* process aborts, or the thread lives on (displaced).
generate_speech ==
    /\ workers["main"].pc # "done"
    /\ requests < MaxRequests
    /\ \E t \in AppTexts, v \in ComboVoices :
          IF ~tts_core.exists
          THEN /\ dialog' = "no_core"
               /\ UNCHANGED <<workers, ui_state, requests, displaced, window>>
          ELSE LET text == Strip(t)
               IN  IF ~validate_request(text, v)
                   THEN /\ dialog' = "validation"
                        /\ UNCHANGED <<workers, ui_state, requests, displaced, window>>
                   ELSE /\ ui_state' = "generating"
                        /\ workers' = [workers EXCEPT
                                          !["main"] = create_worker(tts_core, settings, text, v)]
                        /\ dialog' = "none"
                        /\ requests' = requests + 1
                        /\ IF isRunning(workers["main"])
                           THEN /\ displaced' = Append(displaced, workers["main"])
                                /\ \E survives \in BOOLEAN :
                                      window' = IF survives THEN window ELSE "aborted"
                           ELSE UNCHANGED <<displaced, window>>
    /\ UNCHANGED <<harnessVars, key_store, delimiter_call, temp_files, saved_file,
                   pydub_available, settings, tts_core, audio_data, player>>

\* _generate_speech started from the generate button, which is enabled unless
\* the state last given to _update_ui_state is 'generating'
GenerateSpeech ==
    /\ ui_state # "generating"
    /\ generate_speech

\* _generate_speech started from the keyboard shortcut, a QShortcut of the window
\* that no state disables
GenerateShortcut == generate_speech

\* _on_playback_state_changed, the slot of the player's playbackStateChanged
\* signal, once the player has a source to play
PlaybackStateChanged ==
    /\ player.source # << >>
    /\ \E state \in { "PlayingState", "PausedState", "StoppedState" } :
          ui_state' = CASE state = "PlayingState" -> "playing"
                        [] state = "PausedState" -> "paused"
                        [] state = "StoppedState" ->
                              IF audio_data # << >> THEN "has_audio" ELSE "idle"
    /\ UNCHANGED <<harnessVars, quietVars, temp_files, saved_file, pydub_available, settings,
                   tts_core, workers, audio_data, dialog, player, requests>>

\* _preview_voice with the voice v selected in voice_combo; the model follows one
\* preview worker at a time
PreviewVoice ==
    /\ tts_core.exists
    /\ workers["preview"].kind = "none"
    /\ requests < MaxRequests
    /\ requests' = requests + 1
    /\ \E v \in ComboVoices :
          workers' = [workers EXCEPT
                         !["preview"] = create_worker(tts_core, settings, preview_text(v), v)]
    /\ UNCHANGED <<harnessVars, quietVars, temp_files, saved_file, pydub_available, settings, tts_core, audio_data, ui_state,
                   dialog, player>>

\* QThread.start: run() up to the first remote call
WorkerRun(slot) ==
    /\ workers[slot].pc = "start"
    /\ workers' = [workers EXCEPT
                      ![slot] = IF @.kind = "tts" THEN TTSWorker_run(@)
                                ELSE MultiVoiceTTSWorker_run(@, pydub_available)]
    /\ UNCHANGED <<harnessVars, quietVars, temp_files, saved_file, pydub_available, settings, tts_core, audio_data, ui_state,
                   dialog, player, requests>>

\* RemoteResponse of workers that assemble their audio in one buffer they share
RemoteResponse_sharedBuffer(slot) ==
    /\ workers[slot].pc \in { "single_call", "native_call", "segment_call" }
    /\ \E outcome \in Outcomes :
          LET w == workers[slot]
              audio == ResponseAudio(Len(w.calls))
              r == CASE w.pc = "single_call" -> TTSWorker_response(w, outcome, audio)
                     [] w.pc = "native_call" ->
                           generate_native_multispeaker_response(w, outcome, audio,
                                                                 pydub_available)
                     [] w.pc = "segment_call" ->
                           generate_sequential_response(w, outcome, audio)
          IN  workers' = [s \in Slots |->
                            IF s = slot THEN r
                            ELSE [workers[s] EXCEPT !.combined_audio = r.combined_audio]]
    /\ UNCHANGED <<harnessVars, quietVars, temp_files, saved_file, pydub_available, settings,
                   tts_core, audio_data, ui_state, dialog, player, requests>>

\* the pending remote call of the worker returns or raises, and run() goes on to
\* the next remote call or to the end
RemoteResponse(slot) ==
    /\ workers[slot].pc \in { "single_call", "native_call", "segment_call" }
    /\ \E outcome \in Outcomes :
          LET w == workers[slot]
              audio == ResponseAudio(Len(w.calls))
          IN  workers' = [workers EXCEPT
                 ![slot] =
                    CASE w.pc = "single_call" -> TTSWorker_response(w, outcome, audio)
                      [] w.pc = "native_call" ->
                            generate_native_multispeaker_response(w, outcome, audio,
                                                                  pydub_available)
                      [] w.pc = "segment_call" ->
                            generate_sequential_response(w, outcome, audio)]
    /\ UNCHANGED <<harnessVars, quietVars, temp_files, saved_file, pydub_available, settings, tts_core, audio_data, ui_state,
                   dialog, player, requests>>

Ended(w, sig) == w.pc = "done" /\ w.emitted # << >> /\ w.emitted[Len(w.emitted)].sig = sig

\* AudioPlayer.load_audio_data; staged says whether the temporary file, which is
\* created in either case, could be written
load_audio_data(p, data, staged) ==
    IF staged THEN [current_audio_data |-> data, source |-> save_wav_file(data)]
    ELSE [p EXCEPT !.current_audio_data = data]

\* _on_generation_finished, the slot of the main worker's finished signal (the
\* last_voice setting it stores and the playback it may start are not among the
\* variables)
OnGenerationFinished ==
    /\ Ended(workers["main"], "finished")
    /\ LET data == workers["main"].emitted[Len(workers["main"].emitted)].data
       IN  /\ audio_data' = data
           /\ ui_state' = "has_audio"
           /\ \E staged \in BOOLEAN :
                 /\ player' = load_audio_data(player, data, staged)
                 /\ dialog' = IF staged THEN "none" ELSE "load_error"
    /\ temp_files' = create_temp_file(temp_files, "player")
    /\ workers' = [workers EXCEPT !["main"] = NoWorker]
    /\ UNCHANGED <<harnessVars, quietVars, saved_file, pydub_available, settings, tts_core, requests>>

\* _on_generation_error also dropping the audio held so far
OnGenerationError_dropsAudio ==
    /\ Ended(workers["main"], "error")
    /\ ui_state' = "idle"
    /\ dialog' = "generation_error"
    /\ audio_data' = << >>
    /\ player' = NoPlayer
    /\ workers' = [workers EXCEPT !["main"] = NoWorker]
    /\ UNCHANGED <<harnessVars, quietVars, temp_files, saved_file, pydub_available, settings, tts_core, requests>>

\* _on_generation_error, the slot of the main worker's error signal
OnGenerationError ==
    /\ Ended(workers["main"], "error")
    /\ ui_state' = "idle"
    /\ dialog' = "generation_error"
    /\ workers' = [workers EXCEPT !["main"] = NoWorker]
    /\ UNCHANGED <<harnessVars, quietVars, temp_files, saved_file, pydub_available, settings, tts_core, audio_data, player, requests>>

\* _on_preview_finished, the slot of the preview worker's finished signal
OnPreviewFinished ==
    /\ Ended(workers["preview"], "finished")
    /\ LET data == workers["preview"].emitted[Len(workers["preview"].emitted)].data
       IN  \E staged \in BOOLEAN :
              /\ player' = IF staged THEN [player EXCEPT !.source = save_wav_file(data)]
                           ELSE player
              /\ dialog' = IF staged THEN "none" ELSE "preview_error"
    /\ temp_files' = create_temp_file(temp_files, "app")
    /\ workers' = [workers EXCEPT !["preview"] = NoWorker]
    /\ UNCHANGED <<harnessVars, quietVars, saved_file, pydub_available, settings, tts_core, audio_data, ui_state,
                   requests>>

\* the lambda connected to the preview worker's error signal
OnPreviewError ==
    /\ Ended(workers["preview"], "error")
    /\ dialog' = "preview_error"
    /\ workers' = [workers EXCEPT !["preview"] = NoWorker]
    /\ UNCHANGED <<harnessVars, quietVars, temp_files, saved_file, pydub_available, settings, tts_core, audio_data, ui_state,
                   player, requests>>

Next ==
    \/ GenerateSpeech
    \/ PreviewVoice
    \/ \E slot \in Slots : WorkerRun(slot)
    \/ \E slot \in Slots : RemoteResponse(slot)
    \/ OnGenerationFinished
    \/ OnGenerationError
    \/ OnPreviewFinished
    \/ OnPreviewError

Spec == Init /\ [][Next]_vars

(***************************************************************************)
(* The runs of two workers side by side: a main worker (built by           *)
(* create_worker, or a TTSWorker constructed with arguments of any kind)   *)
(* and a voice-preview worker, both started.  A started thread runs, and a *)
(* remote call returns or raises.                                          *)
(***************************************************************************)
RunTexts == { <<"H","i">>, ExampleTags, ExampleThreeVoices, ExampleDelimiter }

MainRuns(stored) ==
    { create_worker(TextToSpeechCore(GoodKey), stored, t, v) : t \in RunTexts, v \in ComboVoices }
    \cup { TTSWorker(k, t, v) : k \in { GoodKey, ShortKey }, t \in { << >>, <<"H","i">> },
                                v \in { Kore, Nova } }

PreviewRuns(stored) ==
    { create_worker(TextToSpeechCore(GoodKey), stored, preview_text(v), v) : v \in ComboVoices }

InitRun ==
    /\ HarnessIdle
    /\ pydub_available \in BOOLEAN
    /\ settings \in { StoredSettings(c) : c \in SettingsChoices }
    /\ tts_core = TextToSpeechCore(GoodKey)
    /\ \E m \in MainRuns(settings), p \in PreviewRuns(settings) :
          workers = [s \in Slots |-> IF s = "main" THEN m ELSE p]
    /\ audio_data = << >>
    /\ ui_state = "generating"
    /\ dialog = "none"
    /\ player = NoPlayer
    /\ requests = 2
    /\ saved_file = NoFile
    /\ temp_files = NoTempFiles
    /\ window = "open"
    /\ displaced = << >>
    /\ key_store = KeyStoreOf(tts_core)
    /\ delimiter_call = NoDelimiterCall

NextRun ==
    \/ \E slot \in Slots : WorkerRun(slot)
    \/ \E slot \in Slots : RemoteResponse(slot)

SpecRun ==
    /\ InitRun /\ [][NextRun]_vars
    /\ \A slot \in Slots : WF_vars(WorkerRun(slot)) /\ WF_vars(RemoteResponse(slot))

(***************************************************************************)
(* The voice-delimiter settings and the workers built under them.          *)
(***************************************************************************)
DelimiterInputs ==
    { Repeat("-", n) : n \in { 0, 1, 3, MAX_DELIMITER_LENGTH, MaxDelimiterInput } }
    \cup { <<"|">> }

VoiceSequenceInputs ==
    { << >>, << Nova >>, << Nova, Puck >>, << Kore, Puck >>, << VoiceX, VoiceY >> }

\* "[voice:Nova]Hi[/voice]", "A|B"
SettingsTexts ==
    { <<"H","i">>, ExampleTags, ExampleDelimiter, <<"A","|","B">>,
      OpenTag(Nova) \o <<"H","i">> \o TagClose }

\* a first start: nothing stored yet
InitSettings ==
    /\ HarnessIdle
    /\ pydub_available = TRUE
    /\ settings = [delimiter_enabled |-> FALSE, delimiter_string |-> Unset,
                   delimiter_voice_sequence |-> Unset, use_native_multispeaker |-> FALSE]
    /\ tts_core = TextToSpeechCore(GoodKey)
    /\ workers = [s \in Slots |-> NoWorker]
    /\ audio_data = << >>
    /\ ui_state = "idle"
    /\ dialog = "none"
    /\ player = NoPlayer
    /\ requests = 0
    /\ saved_file = NoFile
    /\ temp_files = NoTempFiles
    /\ window = "open"
    /\ displaced = << >>
    /\ key_store = KeyStoreOf(tts_core)
    /\ delimiter_call = NoDelimiterCall

\* SettingsManager.set_delimiter_enabled
SetDelimiterEnabled ==
    /\ \E enabled \in BOOLEAN : settings' = [settings EXCEPT !.delimiter_enabled = enabled]
    /\ UNCHANGED <<harnessVars, quietVars, temp_files, saved_file, pydub_available, tts_core,
                   workers, audio_data, ui_state, dialog, player, requests>>

\* SettingsManager.set_delimiter_string
SetDelimiterString ==
    /\ \E delimiter \in DelimiterInputs :
          /\ settings' = set_delimiter_string(settings, delimiter)
          /\ delimiter_call' = [called |-> TRUE, delimiter |-> delimiter]
    /\ UNCHANGED <<harnessVars, window, displaced, key_store, temp_files, saved_file,
                   pydub_available, tts_core, workers, audio_data, ui_state, dialog, player,
                   requests>>

\* SettingsManager.set_delimiter_voice_sequence
SetDelimiterVoiceSequence ==
    /\ \E voices \in VoiceSequenceInputs :
          settings' = [settings EXCEPT
                          !.delimiter_voice_sequence = set_delimiter_voice_sequence(voices)]
    /\ UNCHANGED <<harnessVars, quietVars, temp_files, saved_file, pydub_available, tts_core,
                   workers, audio_data, ui_state, dialog, player, requests>>

\* SettingsManager.set_use_native_multispeaker
SetUseNativeMultispeaker ==
    /\ \E enabled \in BOOLEAN :
          settings' = [settings EXCEPT !.use_native_multispeaker = enabled]
    /\ UNCHANGED <<harnessVars, quietVars, temp_files, saved_file, pydub_available, tts_core,
                   workers, audio_data, ui_state, dialog, player, requests>>

\* TextToSpeechCore.create_worker with a text and a voice of the catalog
CreateWorker ==
    /\ \E t \in SettingsTexts, v \in ComboVoices :
          workers' = [workers EXCEPT !["main"] = create_worker(tts_core, settings, t, v)]
    /\ UNCHANGED <<harnessVars, quietVars, temp_files, saved_file, pydub_available, settings,
                   tts_core, audio_data, ui_state, dialog, player, requests>>

NextSettings ==
    \/ SetDelimiterEnabled
    \/ SetDelimiterString
    \/ SetDelimiterVoiceSequence
    \/ SetUseNativeMultispeaker
    \/ CreateWorker
    \/ WorkerRun("main")

SpecSettings == InitSettings /\ [][NextSettings]_vars

(***************************************************************************)
(* Closing the window.                                                     *)
(***************************************************************************)
\* closeEvent up to its wait: the player and both TempFileManagers are cleaned
\* up (removable holds the files os.remove can remove), and a running
\* current_worker is terminated and waited for; with no running worker the
\* event is accepted at once
CloseEvent ==
    /\ window = "open"
    /\ \E removable \in SUBSET temp_files.disk :
          temp_files' = cleanup(cleanup(temp_files, "player", removable), "app", removable)
    /\ player' = [player EXCEPT !.current_audio_data = << >>]
    /\ window' = IF isRunning(workers["main"]) THEN "closing" ELSE "closed"
    /\ UNCHANGED <<harnessVars, displaced, key_store, delimiter_call, saved_file,
                   pydub_available, settings, tts_core, workers, audio_data, ui_state, dialog,
                   requests>>

\* closeEvent with wait() given no time limit
CloseWaitReturns_untilFinished ==
    /\ window = "closing"
    /\ ~isRunning(workers["main"])
    /\ window' = "closed"
    /\ UNCHANGED <<harnessVars, displaced, key_store, delimiter_call, temp_files, saved_file,
                   pydub_available, settings, tts_core, workers, audio_data, ui_state, dialog,
                   player, requests>>

\* closeEvent from the return of current_worker.wait(3000), which returns when
\* the thread has finished or when the 3000 ms have passed, whichever is first:
\* the event is accepted
CloseWaitReturns ==
    /\ window = "closing"
    /\ window' = "closed"
    /\ UNCHANGED <<harnessVars, displaced, key_store, delimiter_call, temp_files, saved_file,
                   pydub_available, settings, tts_core, workers, audio_data, ui_state, dialog,
                   player, requests>>

\* the threads of the workers run as long as the process does
ThreadStep(slot) ==
    /\ window \in { "open", "closing" }
    /\ (WorkerRun(slot) \/ RemoteResponse(slot))

\* the handlers of the window run while it is open (closeEvent keeps the GUI
\* thread while it waits)
WhileOpen(A) == window = "open" /\ A

(***************************************************************************)
(* The credential: its removal and replacement in the settings dialog, and *)
(* the start of the application with what QSettings, the JSON backup and   *)
(* the environment hold.                                                   *)
(***************************************************************************)
NoCore == [exists |-> FALSE, api_key |-> << >>]

\* a valid key found in the environment, another one the user types
EnvKey == KeyPrefix \o Repeat("e", 31)
TypedKey == KeyPrefix \o Repeat("t", 31)

\* what the user does in ApiKeyDialog: cancels it, or accepts it with a key
DialogEntries ==
    { [accepted |-> FALSE, api_key |-> << >>] }
    \cup { [accepted |-> TRUE, api_key |-> k] : k \in { TypedKey, ShortKey } }

\* _show_api_key_dialog: the store, the core and the message box it leaves;
\* client_ok says whether TextToSpeechCore could create its client; exits says
\* whether the process ends (sys.exit(1) in the initial setup)
show_api_key_dialog(store, core, entry, is_initial_setup, json_written, client_ok) ==
    IF ~entry.accepted THEN [store |-> store, core |-> core, dialog |-> "none", exits |-> FALSE]
    ELSE IF save_api_key_result(store, entry.api_key)
         THEN IF client_ok
              THEN [store |-> save_api_key(store, entry.api_key, json_written),
                    core |-> TextToSpeechCore(entry.api_key), dialog |-> "key_saved",
                    exits |-> FALSE]
              ELSE [store |-> save_api_key(store, entry.api_key, json_written),
                    core |-> core, dialog |-> "key_check_error", exits |-> is_initial_setup]
         ELSE [store |-> store, core |-> core, dialog |-> "key_save_error",
               exits |-> is_initial_setup]

\* ModernTTSApp.__init__ with _setup_api_key
setup_api_key(store, entry, json_written, client_ok) ==
    LET api_key == load_api_key(store)
        loaded == load_api_key_store(store)
    IN  IF api_key # << >> /\ client_ok
        THEN [store |-> loaded, core |-> TextToSpeechCore(api_key), dialog |-> "none",
              exits |-> FALSE]
        ELSE show_api_key_dialog(loaded, NoCore, entry, TRUE, json_written, client_ok)

\* what an earlier session can have left: nothing, a saved key, a removed key
PersistedStores ==
    UNION { { EmptyKeyStore(env, crypto),
              save_api_key(EmptyKeyStore(env, crypto), GoodKey, json_written),
              remove_api_key(save_api_key(EmptyKeyStore(env, crypto), GoodKey, TRUE),
                             json_written) } :
            env \in { << >>, EnvKey, ShortKey }, crypto \in BOOLEAN, json_written \in BOOLEAN }

\* the application started (and did not exit in the setup of its key)
InitCredential ==
    /\ HarnessIdle
    /\ pydub_available = TRUE
    /\ settings = StoredSettings(<<FALSE, Dashes, Unset, FALSE>>)
    /\ \E store \in PersistedStores, entry \in DialogEntries, json_written \in BOOLEAN,
          client_ok \in BOOLEAN :
          LET r == setup_api_key(store, entry, json_written, client_ok)
          IN  /\ ~r.exits
              /\ key_store = r.store
              /\ tts_core = r.core
              /\ dialog = r.dialog
    /\ workers = [s \in Slots |-> NoWorker]
    /\ audio_data = << >>
    /\ ui_state = "idle"
    /\ player = NoPlayer
    /\ requests = 0
    /\ saved_file = NoFile
    /\ temp_files = NoTempFiles
    /\ window = "open"
    /\ displaced = << >>
    /\ delimiter_call = NoDelimiterCall

\* _handle_remove_api_key_request; confirm is the answer to the question box
RemoveApiKeyRequest ==
    /\ \E confirm \in BOOLEAN, entry \in DialogEntries, removal_written \in BOOLEAN,
          json_written \in BOOLEAN, client_ok \in BOOLEAN :
          IF confirm
          THEN LET r == show_api_key_dialog(remove_api_key(key_store, removal_written), NoCore,
                                            entry, FALSE, json_written, client_ok)
               IN  /\ key_store' = r.store
                   /\ tts_core' = r.core
                   /\ dialog' = IF r.dialog = "none" THEN "key_removed" ELSE r.dialog
          ELSE UNCHANGED <<key_store, tts_core, dialog>>
    /\ UNCHANGED <<harnessVars, window, displaced, delimiter_call, temp_files, saved_file,
                   pydub_available, settings, workers, audio_data, ui_state, player, requests>>

\* _handle_change_api_key_request
ChangeApiKeyRequest ==
    /\ \E entry \in DialogEntries, json_written \in BOOLEAN, client_ok \in BOOLEAN :
          LET r == show_api_key_dialog(key_store, tts_core, entry, FALSE, json_written,
                                       client_ok)
          IN  /\ key_store' = r.store
              /\ tts_core' = r.core
              /\ dialog' = r.dialog
    /\ UNCHANGED <<harnessVars, window, displaced, delimiter_call, temp_files, saved_file,
                   pydub_available, settings, workers, audio_data, ui_state, player, requests>>

NextCredential ==
    \/ RemoveApiKeyRequest
    \/ ChangeApiKeyRequest
    \/ GenerateSpeech
    \/ PreviewVoice

SpecCredential == InitCredential /\ [][NextCredential]_vars

(***************************************************************************)
(* Export of the held audio: _save_speech.                                 *)
(***************************************************************************)
MP3_SAMPLE_RATE == 44100
MP3_CHANNELS == 1

\* what the user does in the save dialog: cancels it, or chooses a path that ends
\* in .wav (or in anything but .mp3), or one that ends in .mp3
SaveChoices == { "cancel", "wav", "mp3" }

\* AudioSegment.from_wav: the frames of a file the wave module wrote
from_wav(wav_content) == SubSeq(wav_content, 45, Len(wav_content))

\* AudioFileManager.convert_to_mp3: the file written, an MP3 encoding (at
\* MP3_SAMPLE_RATE, MP3_CHANNELS) of the frames of the WAV file
convert_to_mp3(wav_content) ==
    [format |-> "mp3",
     content |-> <<MP3_SAMPLE_RATE, MP3_CHANNELS>> \o from_wav(wav_content)]

\* _save_speech that gives up the held audio when writing fails
SaveSpeech_dropsAudioOnError ==
    /\ audio_data # << >>
    /\ dialog' = "save_error"
    /\ audio_data' = << >>
    /\ UNCHANGED <<harnessVars, quietVars, temp_files, saved_file, pydub_available, settings, tts_core, workers,
                   ui_state, player, requests>>

\* _save_speech; written says whether the WAV file could be written, converted
\* whether the conversion to MP3 succeeded (a failed write leaves no new file),
\* removed whether convert_to_mp3 could remove the temporary file of its own
\* TempFileManager
SaveSpeech ==
    /\ IF audio_data = << >>
       THEN /\ dialog' = "no_audio"
            /\ UNCHANGED <<saved_file, temp_files>>
       ELSE \E choice \in SaveChoices, written \in BOOLEAN, converted \in BOOLEAN,
               removed \in BOOLEAN :
               LET wav == [format |-> "wav", content |-> save_wav_file(audio_data)]
                   staged == create_temp_file(temp_files, "app")
                   temp_wav == NamedTemporaryFile(staged.disk)
               IN  CASE choice = "cancel" -> UNCHANGED <<dialog, saved_file, temp_files>>
                     [] choice = "wav" \/ (choice = "mp3" /\ ~pydub_available) ->
                           /\ IF written
                              THEN saved_file' = wav /\ dialog' = "saved"
                              ELSE dialog' = "save_error" /\ UNCHANGED saved_file
                           /\ UNCHANGED temp_files
                     [] choice = "mp3" /\ pydub_available ->
                           /\ Cardinality(temp_files.disk) < MaxTempFiles
                           /\ IF written /\ converted
                              THEN /\ saved_file' = convert_to_mp3(wav.content)
                                   /\ dialog' = "saved"
                              ELSE dialog' = "save_error" /\ UNCHANGED saved_file
                           /\ temp_files' =
                                 IF written /\ ~removed
                                 THEN [staged EXCEPT !.disk = @ \cup { temp_wav }]
                                 ELSE staged
    /\ UNCHANGED <<harnessVars, quietVars, pydub_available, settings, tts_core, workers, audio_data,
                   ui_state, player, requests>>

\* the audio a generation can leave in audio_data: none, the buffer of a direct or
\* native call, the export of a sequential run of two segments and of none
HeldAudio ==
  { << >>, ResponseAudio(1),
    export_wav(AudioAppend(AudioAppend(AudioSegmentEmpty, from_raw(ResponseAudio(1))),
                           from_raw(ResponseAudio(2)))),
    export_wav(AudioSegmentEmpty) }

\* the application at rest after a generation, some audio held or none
InitExport ==
    /\ HarnessIdle
    /\ pydub_available \in BOOLEAN
    /\ settings \in { StoredSettings(c) : c \in SettingsChoices }
    /\ tts_core \in { TextToSpeechCore(k) : k \in { GoodKey, ShortKey } }
    /\ workers = [s \in Slots |-> NoWorker]
    /\ audio_data \in HeldAudio
    /\ ui_state = IF audio_data = << >> THEN "idle" ELSE "has_audio"
    /\ dialog = "none"
    /\ player = IF audio_data = << >> THEN NoPlayer
                ELSE load_audio_data(NoPlayer, audio_data, TRUE)
    /\ requests = 0
    /\ saved_file = NoFile
    /\ temp_files = IF audio_data = << >> THEN NoTempFiles
                    ELSE create_temp_file(NoTempFiles, "player")
    /\ window = "open"
    /\ displaced = << >>
    /\ key_store = KeyStoreOf(tts_core)
    /\ delimiter_call = NoDelimiterCall

NextExport == SaveSpeech

SpecExport == InitExport /\ [][NextExport]_vars

\* a session: generations from the button and the shortcut, previews, and
\* playback state changes
InitSession ==
    /\ HarnessIdle
    /\ pydub_available = TRUE
    /\ settings \in { StoredSettings(<<TRUE, Dashes, <<Kore, Puck>>, FALSE>>),
                      StoredSettings(<<FALSE, Dashes, Unset, TRUE>>) }
    /\ tts_core = TextToSpeechCore(GoodKey)
    /\ workers = [s \in Slots |-> NoWorker]
    /\ audio_data = << >>
    /\ ui_state = "idle"
    /\ dialog = "none"
    /\ player = NoPlayer
    /\ requests = 0
    /\ saved_file = NoFile
    /\ temp_files = NoTempFiles
    /\ window = "open"
    /\ displaced = << >>
    /\ key_store = KeyStoreOf(tts_core)
    /\ delimiter_call = NoDelimiterCall

NextSession ==
    \/ WhileOpen(GenerateSpeech)
    \/ WhileOpen(GenerateShortcut)
    \/ WhileOpen(PreviewVoice)
    \/ WhileOpen(OnGenerationFinished)
    \/ WhileOpen(OnGenerationError)
    \/ WhileOpen(OnPreviewFinished)
    \/ WhileOpen(OnPreviewError)
    \/ WhileOpen(PlaybackStateChanged)
    \/ \E slot \in Slots : ThreadStep(slot)

SpecSession == InitSession /\ [][NextSession]_vars

\* the window open, a generation started or none; then the generation ends, the
\* audio is staged and exported, and the window is closed
InitClose ==
    /\ HarnessIdle
    /\ pydub_available \in BOOLEAN
    /\ settings \in { StoredSettings(c) : c \in SettingsChoices }
    /\ tts_core = TextToSpeechCore(GoodKey)
    /\ \E m \in MainRuns(settings) \cup { NoWorker } :
          /\ workers = [s \in Slots |-> IF s = "main" THEN m ELSE NoWorker]
          /\ ui_state = IF m = NoWorker THEN "idle" ELSE "generating"
          /\ requests = IF m = NoWorker THEN 0 ELSE 1
    /\ audio_data = << >>
    /\ dialog = "none"
    /\ player = NoPlayer
    /\ saved_file = NoFile
    /\ temp_files = NoTempFiles
    /\ window = "open"
    /\ displaced = << >>
    /\ key_store = KeyStoreOf(tts_core)
    /\ delimiter_call = NoDelimiterCall

NextClose ==
    \/ ThreadStep("main")
    \/ WhileOpen(OnGenerationFinished)
    \/ WhileOpen(OnGenerationError)
    \/ WhileOpen(SaveSpeech)
    \/ CloseEvent
    \/ CloseWaitReturns

\* wait(3000) returns
SpecClose == InitClose /\ [][NextClose]_vars /\ WF_vars(CloseWaitReturns)

(***************************************************************************)
(* Properties of TextParser.parse.                                         *)
(***************************************************************************)
\* s without its leading and trailing whitespace
Trimmed(s) ==
    LET solid == { i \in 1..Len(s) : ~IsSpace(s[i]) }
    IN  IF solid = {} THEN << >> ELSE SubSeq(s, Min(solid), Max(solid))

ContainsMarker(s) == \E i \in 1..Len(s) : OccursAt(s, TagOpen, i)
Contains(s, p) == \E i \in 1..Len(s) : OccursAt(s, p, i)

RECURSIVE Join(_, _)
Join(parts, sep) ==
    IF Len(parts) = 1 THEN parts[1]
    ELSE (parts[1] \o sep) \o Join(Tail(parts), sep)

TrimSegments(spans) ==
    SelectSeq([j \in 1..Len(spans) |-> <<spans[j][1], Trimmed(spans[j][2])>>], NonEmptyText)

\* the spans of a tagged text in document order: before tag 1, inside tag 1,
\* before tag 2, ..., after the last tag; a tag's voice is the catalog voice it
\* names, default_voice when it names none
TagSpans(text, default_voice) ==
    LET ms == finditer(text, 1)
        n == Len(ms)
        prevEnd(k) == IF k = 1 THEN 1 ELSE ms[k - 1].end
        span(j) ==
            LET k == (j + 1) \div 2
            IN  IF j % 2 = 1
                THEN <<default_voice,
                       SubSeq(text, prevEnd(k),
                              IF k > n THEN Len(text) ELSE ms[k].start - 1)>>
                ELSE <<IF ms[k].voice \in VOICES THEN ms[k].voice ELSE default_voice,
                       ms[k].inner>>
    IN  [j \in 1..(2 * n + 1) |-> span(j)]

ExpectedTagSegments(text, default_voice) == TrimSegments(TagSpans(text, default_voice))

\* the parts of a delimited text that are not blank, trimmed, the k-th with the
\* voice sequence[k mod length]
ExpectedDelimiterSegments(text, default_voice, delimiter, sequence) ==
    LET parts == Split(text, delimiter)
        kept == SelectSeq([k \in 1..Len(parts) |-> <<default_voice, Trimmed(parts[k])>>],
                          NonEmptyText)
        cycle == IF sequence = << >> THEN << default_voice >> ELSE sequence
    IN  [k \in 1..Len(kept) |-> <<cycle[((k - 1) % Len(cycle)) + 1], kept[k][2]>>]

\* C1: for a text with no voice-tag marker and delimiter mode disabled, parse
\* returns exactly one segment (default_voice, trimmed text), or no segment when
\* the trimmed text is empty.
C1_PlainTextOneSegment ==
    (parseResult.done /\ ~ContainsMarker(parseArgs.text) /\ ~parseArgs.delimiter_enabled)
    => parseResult.segments =
          IF Trimmed(parseArgs.text) = << >> THEN << >>
          ELSE << <<parseArgs.default_voice, Trimmed(parseArgs.text)>> >>

C1_Witness ==
    /\ parseResult.done
    /\ ~ContainsMarker(parseArgs.text)
    /\ ~parseArgs.delimiter_enabled
    /\ Contains(parseArgs.text, Dashes)
    /\ Len(parseResult.segments) = 1
    /\ parseResult.segments[1][2] # parseArgs.text

\* C2: in tag mode parse emits, in document order, the trimmed text before each
\* tag and after the last tag with default_voice and the trimmed inner text of
\* each tag with the tag's voice (the catalog voice it names), dropping the spans
\* that are empty after trimming; the example of the specification yields
\* [("Kore","Hi"), ("Puck","Bye")].
C2_TagModeSegments ==
    (parseResult.done /\ ContainsMarker(parseArgs.text))
    => /\ parseResult.segments =
             ExpectedTagSegments(parseArgs.text, parseArgs.default_voice)
       /\ (parseArgs.text = ExampleTags /\ parseArgs.default_voice = Nova)
          => parseResult.segments = << <<Kore, <<"H","i">> >>, <<Puck, <<"B","y","e">> >> >>

C2_Witness ==
    /\ parseResult.done
    /\ parseArgs.text = ExampleTags
    /\ parseArgs.default_voice = Nova
    /\ parseResult.segments = << <<Kore, <<"H","i">> >>, <<Puck, <<"B","y","e">> >> >>

\* C3: in delimiter mode (no marker, delimiter enabled and non-empty) parse splits
\* the text on every occurrence of the delimiter, drops the parts that are empty
\* after trimming and gives the k-th remaining part the voice
\* sequence[k mod length], an empty sequence standing for [default_voice];
\* "A---B---C" with ["X","Y"] yields [("X","A"),("Y","B"),("X","C")].
C3_DelimiterModeCycles ==
    (/\ parseResult.done
     /\ ~ContainsMarker(parseArgs.text)
     /\ parseArgs.delimiter_enabled
     /\ parseArgs.delimiter_string # << >>)
    => /\ parseResult.segments =
             ExpectedDelimiterSegments(parseArgs.text, parseArgs.default_voice,
                                       parseArgs.delimiter_string,
                                       parseArgs.delimiter_voice_sequence)
       /\ Join(Split(parseArgs.text, parseArgs.delimiter_string),
               parseArgs.delimiter_string) = parseArgs.text
       /\ \A k \in 1..Len(parseResult.segments) :
             ~Contains(parseResult.segments[k][2], parseArgs.delimiter_string)
       /\ (/\ parseArgs.text = ExampleDelimiter
           /\ parseArgs.delimiter_string = Dashes
           /\ parseArgs.delimiter_voice_sequence = <<VoiceX, VoiceY>>)
          => parseResult.segments =
                << <<VoiceX, <<"A">> >>, <<VoiceY, <<"B">> >>, <<VoiceX, <<"C">> >> >>

C3_Witness ==
    /\ parseResult.done
    /\ parseArgs.text = ExampleGaps
    /\ parseArgs.delimiter_enabled
    /\ parseArgs.delimiter_string = Dashes
    /\ parseArgs.delimiter_voice_sequence = <<VoiceX, VoiceY>>
    /\ parseResult.segments =
          << <<VoiceX, <<"A">> >>, <<VoiceY, <<"B">> >>, <<VoiceX, <<"-","C">> >> >>

\* C4: a text that holds a voice tag and the delimiter string, parsed with
\* delimiter mode enabled, yields the tag-mode segments: no segment is cut at a
\* delimiter and every voice is default_voice or the voice of a tag.
C4_TagModeWins ==
    (/\ parseResult.done
     /\ parseArgs.delimiter_enabled
     /\ parseArgs.delimiter_string # << >>
     /\ finditer(parseArgs.text, 1) # << >>
     /\ Contains(parseArgs.text, parseArgs.delimiter_string))
    => /\ parseResult.segments =
             ExpectedTagSegments(parseArgs.text, parseArgs.default_voice)
       /\ \A k \in 1..Len(parseResult.segments) :
             \/ parseResult.segments[k][1] = parseArgs.default_voice
             \/ \E j \in 1..Len(finditer(parseArgs.text, 1)) :
                   parseResult.segments[k][1] = finditer(parseArgs.text, 1)[j].voice

C4_Witness ==
    /\ parseResult.done
    /\ parseArgs.text = ExampleMixed
    /\ parseArgs.delimiter_enabled
    /\ parseArgs.delimiter_string = Dashes
    /\ parseArgs.default_voice = Nova
    /\ parseResult.segments =
          << <<Nova, <<"H","i">> >>, <<Kore, <<"a","\n","b">> >>, <<Nova, Dashes>>,
             <<Puck, <<"c">> >>, <<Nova, <<"Y","o">> >> >>

\* the texts of the segments occur in the text one after another, from index pos on
RECURSIVE InDocumentOrder(_, _, _)
InDocumentOrder(text, segments, pos) ==
    IF segments = << >> THEN TRUE
    ELSE LET at == Find(text, segments[1][2], pos)
         IN  /\ at # 0
             /\ InDocumentOrder(text, Tail(segments), at + Len(segments[1][2]))

\* C16: for every input and configuration the list parse returns holds no segment
\* whose text is empty after trimming, and the texts of its segments are spans of
\* the input that follow one another from left to right.
C16_NoEmptySegmentInOrder ==
    parseResult.done
    => /\ \A k \in 1..Len(parseResult.segments) :
             Trimmed(parseResult.segments[k][2]) # << >>
       /\ InDocumentOrder(parseArgs.text, parseResult.segments, 1)

\* a tagged text of which a span was dropped and at least two segments remain
C16_Witness ==
    /\ parseResult.done
    /\ finditer(parseArgs.text, 1) # << >>
    /\ Len(parseResult.segments) >= 2
    /\ Len(parseResult.segments) < Len(TagSpans(parseArgs.text, parseArgs.default_voice))
    /\ parseResult.segments[1][2] # parseResult.segments[2][2]

\* the voice a tag's text is spoken with
TagVoice(m, default_voice) == IF m.voice \in VOICES THEN m.voice ELSE default_voice

\* C17: in tag mode the inner text of a tag (when not blank) is emitted with the
\* voice the tag names if that voice is in the catalog and with default_voice if it
\* is not: the text of a tag with an unknown voice is not dropped, and no segment
\* carries a voice that is neither in the catalog nor default_voice.
C17_UnknownTagVoiceFallsBack ==
    (parseResult.done /\ ContainsMarker(parseArgs.text))
    => LET ms == finditer(parseArgs.text, 1)
       IN  /\ \A j \in 1..Len(ms) :
                  Trimmed(ms[j].inner) # << >> =>
                     \E k \in 1..Len(parseResult.segments) :
                        parseResult.segments[k] =
                           <<TagVoice(ms[j], parseArgs.default_voice), Trimmed(ms[j].inner)>>
           /\ \A k \in 1..Len(parseResult.segments) :
                  parseResult.segments[k][1] \in VOICES \cup { parseArgs.default_voice }

\* a tag that names a voice outside the catalog, its text emitted with default_voice
C17_Witness ==
    /\ parseResult.done
    /\ \E j \in 1..Len(finditer(parseArgs.text, 1)) :
          LET m == finditer(parseArgs.text, 1)[j]
          IN  /\ m.voice \notin VOICES
              /\ m.voice # parseArgs.default_voice
              /\ Trimmed(m.inner) # << >>
              /\ \E k \in 1..Len(parseResult.segments) :
                    parseResult.segments[k] = <<parseArgs.default_voice, Trimmed(m.inner)>>

\* C18 as stated: when the text holds no complete tag and delimiter mode is enabled
\* with a non-empty delimiter, parse splits the text on the delimiter and assigns
\* the cycling voices (tag mode being used only for a text with a complete tag).
C18_TagModeOnlyForCompleteTags ==
    (/\ parseResult.done
     /\ finditer(parseArgs.text, 1) = << >>
     /\ parseArgs.delimiter_enabled
     /\ parseArgs.delimiter_string # << >>)
    => parseResult.segments =
          ExpectedDelimiterSegments(parseArgs.text, parseArgs.default_voice,
                                    parseArgs.delimiter_string,
                                    parseArgs.delimiter_voice_sequence)

(***************************************************************************)
(* Properties of Validator.validate_api_key.                               *)
(***************************************************************************)
Letters ==
  { "A","B","C","D","E","F","G","H","I","J","K","L","M","N","O","P","Q","R","S","T",
    "U","V","W","X","Y","Z",
    "a","b","c","d","e","f","g","h","i","j","k","l","m","n","o","p","q","r","s","t",
    "u","v","w","x","y","z" }
Digits == { "0","1","2","3","4","5","6","7","8","9" }

OnlyKeyCharacters(s) ==
    \A i \in 1..Len(s) : s[i] \in Letters \cup Digits \cup { "-", "_" }

WellFormedKey(s) ==
    /\ Len(s) >= 30
    /\ Len(s) >= 4 /\ SubSeq(s, 1, 4) = <<"A","I","z","a">>
    /\ OnlyKeyCharacters(s)

\* C9: validate_api_key accepts a credential exactly when, trimmed, it is at
\* least 30 characters long, starts with "AIza" and holds only letters, digits,
\* hyphens and underscores; a 10-character string is rejected and a 35-character
\* string of that shape is accepted.
C9_ApiKeyValidation ==
    keyResult.done
    => /\ keyResult.is_valid = WellFormedKey(Trimmed(keyArg))
       /\ Len(keyArg) = 10 => ~keyResult.is_valid
       /\ (/\ Len(keyArg) = 35
           /\ SubSeq(keyArg, 1, 4) = <<"A","I","z","a">>
           /\ OnlyKeyCharacters(keyArg)) => keyResult.is_valid

C9_Witness ==
    /\ keyResult.done
    /\ keyResult.is_valid
    /\ Len(keyArg) = 35
    /\ \E i \in 1..Len(keyArg) : keyArg[i] = "-"

(***************************************************************************)
(* Properties of the generation workers and of the requests.               *)
(***************************************************************************)
Failed(call) == call.outcome \notin { "ok", "pending" }

\* the worker started on the native path and the native call failed
NativeFailed(w) == w.calls # << >> /\ w.calls[1].kind = "native" /\ Failed(w.calls[1])

\* the payloads returned to the segment calls from the k-th call on, appended
RECURSIVE SegmentPayloads(_, _)
SegmentPayloads(calls, k) ==
    IF k > Len(calls) THEN << >>
    ELSE (IF calls[k].kind = "segment" /\ calls[k].outcome = "ok"
          THEN ResponseAudio(k) ELSE << >>) \o SegmentPayloads(calls, k + 1)

EndsWith(s, suffix) ==
    /\ Len(s) >= Len(suffix)
    /\ SubSeq(s, Len(s) - Len(suffix) + 1, Len(s)) = suffix

\* the 1-based number of the segment the k-th call of the worker is for
SegmentNumber(w, k) == IF w.calls[1].kind = "native" THEN k - 1 ELSE k

\* the sequential calls made so far are for the worker's segments, in their order
SameSegmentsInOrder(w) ==
    LET first == IF w.calls # << >> /\ w.calls[1].kind = "native" THEN 2 ELSE 1
    IN  \A k \in first..Len(w.calls) :
           /\ SegmentNumber(w, k) <= Len(w.segments)
           /\ w.calls[k].kind = "segment"
           /\ w.calls[k].voice = w.segments[SegmentNumber(w, k)][1]
           /\ w.calls[k].contents = w.segments[SegmentNumber(w, k)][2]

AllSegmentCallsOk(w) ==
    \A k \in 1..Len(w.calls) : w.calls[k].kind = "segment" => w.calls[k].outcome = "ok"

\* after a failed native call the sequential path runs over the same segments and,
\* every segment call succeeding, ends with one finished signal and no error
FallbackSucceeds(w) ==
    /\ SameSegmentsInOrder(w)
    /\ w.pc # "done" => w.pc = "segment_call"
    /\ (w.pc = "done" /\ AllSegmentCallsOk(w)) =>
          /\ Len(w.calls) = 1 + Len(w.segments)
          /\ Len(w.emitted) = 1
          /\ w.emitted[1].sig = "finished"
          /\ EndsWith(w.emitted[1].data, SegmentPayloads(w.calls, 1))

\* C5: a remote call of the native multi-speaker kind is issued only by a worker
\* that prefers native and whose segments name exactly 2 distinct voices; with 1
\* voice or with 3 or more the worker issues no native call.
C5_NativeOnlyForTwoVoices ==
    \A s \in Slots :
       LET w == workers[s]
       IN  (\E k \in 1..Len(w.calls) : w.calls[k].kind = "native") =>
              /\ w.use_native_multispeaker
              /\ Cardinality(SegmentVoices(w.segments)) = 2

\* a worker that prefers native, has 3 distinct voices and went the sequential way
C5_Witness ==
    \E s \in Slots :
       /\ workers[s].use_native_multispeaker
       /\ Cardinality(SegmentVoices(workers[s].segments)) >= 3
       /\ workers[s].calls # << >>
       /\ workers[s].calls[1].kind = "segment"

\* C6 as stated: whenever the native call failed, the sequential path runs over the
\* same segments in the same order and, if every segment call succeeds, the request
\* ends with a finished signal carrying the appended audio and with no error.
C6_FallbackAlwaysSucceeds ==
    \A s \in Slots : NativeFailed(workers[s]) => FallbackSucceeds(workers[s])

\* C6 amended: the same, provided pydub could be imported (PYDUB_AVAILABLE).
C6_FallbackSucceedsWithPydub ==
    \A s \in Slots :
       (NativeFailed(workers[s]) /\ pydub_available) => FallbackSucceeds(workers[s])

\* a failed native call followed by a successful call for every segment
C6_Witness ==
    \E s \in Slots :
       /\ NativeFailed(workers[s])
       /\ pydub_available
       /\ workers[s].pc = "done"
       /\ Len(workers[s].calls) = 1 + Len(workers[s].segments)
       /\ AllSegmentCallsOk(workers[s])
       /\ workers[s].emitted[1].sig = "finished"

\* C7 as stated: when the call for segment k fails in any way, the request ends with
\* an error that names segment k, and no finished signal is emitted for the request.
C7_FailedSegmentReported ==
    \A s \in Slots :
       LET w == workers[s]
       IN  \A k \in 1..Len(w.calls) :
              (w.calls[k].kind = "segment" /\ Failed(w.calls[k]) /\ w.pc = "done") =>
                 /\ Len(w.emitted) = 1
                 /\ w.emitted[1].sig = "error"
                 /\ w.emitted[1].segment = SegmentNumber(w, k)

\* C8 as stated: the audio of a finished signal of a sequential run whose segment
\* calls all succeeded is the payloads of the segment calls appended in order.
C8_SequentialResultIsRawPcm ==
    \A s \in Slots :
       LET w == workers[s]
       IN  (/\ w.kind = "multi"
            /\ Ended(w, "finished")
            /\ w.calls # << >>
            /\ w.calls[Len(w.calls)].kind = "segment"
            /\ AllSegmentCallsOk(w)) =>
              w.emitted[Len(w.emitted)].data = SegmentPayloads(w.calls, 1)

\* the text, the voices and the key of the worker are valid
ValidInputs(w) ==
    /\ validate_text(w.source)
    /\ validate_api_key(w.api_key)
    /\ w.kind = "tts" => validate_voice(w.voice)
    /\ \A v \in SegmentVoices(w.segments) : validate_voice(v)

\* C10: a step in which a worker (main or preview, TTSWorker or
\* MultiVoiceTTSWorker) issues a remote call is a step of a worker whose source
\* text, voices and key are valid, and a step that raises the validation error
\* creates no worker and issues no call.
C10_ValidatedBeforeRemoteCall ==
    [][ /\ \A s \in Slots :
              Len(workers'[s].calls) > Len(workers[s].calls) => ValidInputs(workers'[s])
        /\ (dialog' = "validation" /\ dialog # "validation") => workers' = workers
      ]_vars

\* the main worker, a MultiVoiceTTSWorker, and the preview worker have both issued
\* remote calls
C10_Witness ==
    /\ workers["main"].kind = "multi"
    /\ workers["main"].calls # << >>
    /\ workers["preview"].calls # << >>

\* the segment texts of the progress signal the worker has emitted
SegmentProgress(w) == { k \in 1..Len(w.progress) : w.progress[k].text = "segment" }

\* C11 as stated: a worker built for a request whose parsed text is exactly one
\* segment makes one direct remote call with that segment's voice and text, without
\* the multi-voice dispatch (so whether pydub is there or not) and without the
\* "segment i/N" progress text.
C11_SingleSegmentDirectCall ==
    \A s \in Slots :
       LET w == workers[s]
       IN  (w.kind = "multi" /\ Len(w.segments) = 1 /\ w.pc # "start") =>
              /\ Len(w.calls) = 1
              /\ w.calls[1].voice = w.segments[1][1]
              /\ w.calls[1].contents = w.segments[1][2]
              /\ SegmentProgress(w) = {}

\* C12: a request that started on the native path emits an error only after the
\* native call failed and the sequential attempt that followed failed as well, and
\* the error is the one of the sequential attempt (of its failed segment call, or
\* of the missing pydub); at most one signal ends the request.
C12_NativeFailureNotReported ==
    \A s \in Slots :
       LET w == workers[s]
       IN  (w.calls # << >> /\ w.calls[1].kind = "native") =>
              /\ Len(w.emitted) <= 1
              /\ \A e \in 1..Len(w.emitted) :
                    w.emitted[e].sig = "error" =>
                       /\ NativeFailed(w)
                       /\ IF pydub_available
                          THEN /\ Len(w.calls) >= 2
                               /\ w.calls[Len(w.calls)].kind = "segment"
                               /\ Failed(w.calls[Len(w.calls)])
                               /\ w.emitted[e].reason \in
                                     { "exception", "empty_response_for_segment" }
                          ELSE /\ Len(w.calls) = 1
                               /\ w.emitted[e].reason = "pydub_missing"

\* the native call failed, a segment call of the fallback failed, an error is out
C12_Witness ==
    \E s \in Slots :
       /\ NativeFailed(workers[s])
       /\ Len(workers[s].calls) >= 3
       /\ Failed(workers[s].calls[Len(workers[s].calls)])
       /\ Ended(workers[s], "error")

\* C15 as stated: the audio the sequential path delivers when there is no segment
\* buffer to append is the empty buffer.
C15_NothingToAppendIsEmpty ==
    \A s \in Slots :
       LET w == workers[s]
       IN  (w.kind = "multi" /\ w.segments = << >> /\ Ended(w, "finished")) =>
              w.emitted[Len(w.emitted)].data = << >>

\* C19 as stated: the calls of a sequential generation are for the segments in
\* their order, none is issued while another is pending, and the call after the
\* one for segment i is issued only if that one succeeded (none after a failure).
C19_SequentialCallsInOrder ==
    \A s \in Slots :
       LET w == workers[s]
       IN  w.kind = "multi" =>
              /\ SameSegmentsInOrder(w)
              /\ \A k \in 1..(Len(w.calls) - 1) :
                    /\ w.calls[k].outcome # "pending"
                    /\ w.calls[k].kind = "segment" => w.calls[k].outcome = "ok"

\* the prompt of the native call: the heading line, then one line "<voice>: <text>"
\* for each segment in order
ConversationPrompt(segments) ==
    PromptHeader
      \o Join([k \in 1..Len(segments) |-> (segments[k][1] \o <<":", " ">>) \o segments[k][2]],
              <<"\n">>)

\* C20: a request whose native call succeeded has made that one remote call and no
\* other, with the prompt that lists every segment in order as "<voice>: <text>"
\* and one speaker for each distinct voice, and it delivers the buffer the call
\* returned; a segment call follows a native call only if the native call failed.
C20_NativeSuccessOneCall ==
    \A s \in Slots :
       LET w == workers[s]
       IN  (w.calls # << >> /\ w.calls[1].kind = "native") =>
              /\ w.calls[1].contents = ConversationPrompt(w.segments)
              /\ w.calls[1].speakers = SegmentVoices(w.segments)
              /\ \A k \in 2..Len(w.calls) : w.calls[k].kind = "segment"
              /\ Len(w.calls) >= 2 => Failed(w.calls[1])
              /\ w.calls[1].outcome = "ok" =>
                    /\ Len(w.calls) = 1
                    /\ w.emitted = << Finished(ResponseAudio(1)) >>

\* a request ended by its successful native call
C20_Witness ==
    \E s \in Slots :
       /\ workers[s].calls # << >>
       /\ workers[s].calls[1].kind = "native"
       /\ workers[s].calls[1].outcome = "ok"
       /\ workers[s].pc = "done"
       /\ Len(workers[s].segments) >= 2

\* the step that hands the finished signal of the main worker to its slot
DeliversFinished == Ended(workers["main"], "finished") /\ workers'["main"] = NoWorker

\* C13: from the step that starts a generation request to the step that handles
\* its error, no step of the request changes audio_data or the player, and no other
\* step taken meanwhile changes audio_data or the audio data the player holds: after
\* a failed generation the held audio is what it was before the request.
C13_FailedGenerationKeepsAudio ==
    [][ ~DeliversFinished =>
           /\ workers'["main"] # workers["main"] =>
                 (audio_data' = audio_data /\ player' = player)
           /\ workers["main"].kind # "none" =>
                 /\ audio_data' = audio_data
                 /\ player'.current_audio_data = player.current_audio_data
      ]_vars

\* a generation has failed after an earlier one succeeded, and the audio is held
C13_Witness ==
    /\ dialog = "generation_error"
    /\ ui_state = "idle"
    /\ workers["main"] = NoWorker
    /\ audio_data # << >>
    /\ player.current_audio_data = audio_data

\* C14: an attempt to save never changes audio_data, whether the file is written,
\* the write or the conversion to MP3 fails, or the dialog is cancelled: the audio
\* is still held and the save can be tried again.
C14_SaveKeepsAudio ==
    [][ /\ audio_data' = audio_data
        /\ dialog' = "save_error" => (audio_data' # << >> /\ saved_file' = saved_file)
      ]_vars

\* a save has failed and the audio is still held
C14_Witness ==
    /\ dialog = "save_error"
    /\ audio_data # << >>

\* what _play_speech plays when audio is held: AudioPlayer.play starts the
\* QMediaPlayer on the source it has
PlayedAudio == player.source

\* C27 as stated: whenever audio is held, what playback plays is the staged file
\* of audio_data, the audio of the most recent generation, whatever generations,
\* previews and staging failures came before.
C27_PlayerPlaysHeldAudio ==
    audio_data # << >> => PlayedAudio = save_wav_file(audio_data)

\* C28 as stated: whenever audio is held and no main generation is in flight, the
\* state last given to _update_ui_state is one that enables the save control and,
\* unless audio is playing, the play control ('has_audio', 'playing' or 'paused').
C28_ControlsEnabledWithAudio ==
    (audio_data # << >> /\ workers["main"].kind = "none")
    => ui_state \in { "has_audio", "playing", "paused" }

(***************************************************************************)
(* Two workers side by side.                                               *)
(***************************************************************************)
\* the audio a worker that ran alone delivers after the remote calls w made:
\* the buffer of its only call, or the WAV export of the payloads of its segment
\* calls joined in order
AloneAudio(w) ==
    IF w.calls = << >> THEN export_wav(AudioSegmentEmpty)
    ELSE IF w.calls[Len(w.calls)].kind \in { "single", "native" }
         THEN ResponseAudio(Len(w.calls))
         ELSE WavFile(SegmentPayloads(w.calls, 1), AUDIO_CHANNELS, AUDIO_SAMPLE_RATE,
                      AUDIO_SAMPLE_WIDTH)

OtherSlot(s) == IF s = "main" THEN "preview" ELSE "main"

\* C21: a step of one worker leaves the record of the other worker as it was,
\* and the audio a worker delivers is what its own remote calls returned,
\* whatever the other worker did meanwhile.
C21_WorkersShareNoState ==
    /\ [](\A s \in Slots :
            Ended(workers[s], "finished")
            => workers[s].emitted[1].data = AloneAudio(workers[s]))
    /\ [][\A s \in Slots :
            workers'[s] # workers[s] => workers'[OtherSlot(s)] = workers[OtherSlot(s)]]_vars

\* both workers delivered audio, the main one assembled from two segment calls
\* or more and the preview one from a segment call of its own
C21_Witness ==
    /\ Ended(workers["main"], "finished")
    /\ Ended(workers["preview"], "finished")
    /\ Len(workers["main"].calls) >= 2
    /\ workers["main"].calls[Len(workers["main"].calls)].kind = "segment"
    /\ workers["preview"].calls[1].kind = "segment"

\* C25: a run that has not ended has emitted neither finished nor error; a run
\* that has ended has emitted exactly one of them, finished with audio or error
\* with a reason; and every run ends.
C25_OneTerminalNotification ==
    /\ [](\A s \in Slots :
            LET w == workers[s]
            IN  /\ w.pc # "done" => w.emitted = << >>
                /\ w.pc = "done" =>
                      /\ Len(w.emitted) = 1
                      /\ \/ w.emitted[1].sig = "finished" /\ w.emitted[1].data # << >>
                         \/ w.emitted[1].sig = "error" /\ w.emitted[1].reason # "")
    /\ \A s \in Slots : <>(workers[s].pc = "done")

\* a run whose native call failed and whose fallback then ended, and a run that
\* failed validation, each with its one notification
C25_Witness ==
    /\ workers["main"].pc = "done"
    /\ workers["main"].native_failed
    /\ Len(workers["main"].emitted) = 1
    /\ workers["preview"].pc = "done"
    /\ Len(workers["preview"].emitted) = 1

(***************************************************************************)
(* The voice-delimiter settings.                                           *)
(***************************************************************************)
ValidDelimiter(d) == d # << >> /\ Len(d) <= MAX_DELIMITER_LENGTH

\* C24: the delimiter string get_delimiter_string returns is never empty and
\* never longer than 10 characters, and a set_delimiter_string call with an empty
\* or over-long string leaves the stored delimiter as it was.
C24_DelimiterStringBounded ==
    /\ [](ValidDelimiter(get_delimiter_string(settings)))
    /\ [][(delimiter_call' # delimiter_call /\ ~ValidDelimiter(delimiter_call'.delimiter))
            => settings'.delimiter_string = settings.delimiter_string]_vars

\* "|" was stored, and the last call, with an over-long string, left it there
C24_Witness ==
    /\ delimiter_call.called
    /\ Len(delimiter_call.delimiter) > MAX_DELIMITER_LENGTH
    /\ settings.delimiter_string = <<"|">>

WorkerVoices(w) ==
    (IF w.kind = "tts" THEN { w.voice } ELSE SegmentVoices(w.segments))
    \cup UNION { (IF c.kind = "native" THEN c.speakers ELSE { c.voice }) :
                   c \in { w.calls[k] : k \in DOMAIN w.calls } }

\* C29: whatever settings were stored before, every segment of a worker that
\* create_worker built for a selected voice of the catalog carries a voice of the
\* catalog, and so does every remote call the worker issues.
C29_SegmentVoicesInCatalog ==
    \A s \in Slots : workers[s].kind # "none" => WorkerVoices(workers[s]) \subseteq VOICES

\* a worker built from a tag that names an unknown voice, and one built in
\* delimiter mode after an attempt to store unknown voices only
C29_Witness ==
    /\ workers["main"].kind = "multi"
    /\ workers["main"].calls # << >>
    /\ \/ has_voice_tags(workers["main"].source) /\ Contains(workers["main"].source, Nova)
       \/ /\ settings.delimiter_enabled
          /\ settings.delimiter_voice_sequence = DEFAULT_VOICE
          /\ Len(workers["main"].segments) >= 2

(***************************************************************************)
(* The credential.                                                         *)
(***************************************************************************)
\* C30: while remove_api_key is the last of the removals and successful saves,
\* load_api_key returns no key, whatever the environment and the JSON backup
\* hold, the application has no core, and no step starts a worker; when a
\* successful save_api_key is the last of them, load_api_key returns a valid key.
C30_RemovedKeyStaysRemoved ==
    /\ [](key_store.last = "removed"
            => load_api_key(key_store) = << >> /\ ~tts_core.exists)
    /\ [](key_store.last = "saved" => validate_api_key(load_api_key(key_store)))
    /\ [][(key_store.last = "removed" /\ key_store'.last = "removed")
            => workers' = workers]_vars

\* the key was removed and no new one entered, a valid key is in the environment
\* and one is left in the JSON backup, and _generate_speech was asked for
C30_Witness ==
    /\ key_store.last = "removed"
    /\ validate_api_key(key_store.env)
    /\ key_store.json_api_key_encrypted # << >>
    /\ dialog = "no_core"

(***************************************************************************)
(* Closing the window, temporary files, one generation at a time.          *)
(***************************************************************************)
\* C22: closeEvent waits only when current_worker is running; once it waits,
\* the event is accepted, whether the worker has finished or not; and the close
\* takes away no step the worker could take.
C22_CloseCompletes ==
    /\ (window = "closing") ~> (window = "closed")
    /\ [][window' # window =>
            \/ window = "open" /\ window' = "closing" /\ isRunning(workers["main"])
            \/ window = "open" /\ window' = "closed" /\ ~isRunning(workers["main"])
            \/ window = "closing" /\ window' = "closed"]_vars

\* the window is closed and the remote call of the worker has still not returned
C22_Witness ==
    /\ window = "closed"
    /\ workers["main"].pc \in { "single_call", "native_call", "segment_call" }

NoDuplicates(s) == \A i, j \in DOMAIN s : i # j => s[i] # s[j]

\* C23 as stated: no path is tracked by two managers or twice by one, and once
\* the window is closed both tracking lists are empty and no temporary file is
\* left.
C23_NoTempFileAfterClose ==
    /\ NoDuplicates(temp_files.app \o temp_files.player)
    /\ window = "closed" =>
          /\ temp_files.app = << >>
          /\ temp_files.player = << >>
          /\ temp_files.disk = {}

\* C26 as stated: current_worker is never replaced while the worker it points to
\* is running, so no second main worker is started before the first has emitted
\* its finished or error signal.
C26_OneMainWorkerInFlight ==
    displaced = << >> /\ window # "aborted"

====
